---------------------------- MODULE Spec2Model ----------------------------
(***************************************************************************)
(* A model of mitre-mitigates.go: the bundle parser, the resolver, the     *)
(* collector, the missing-set computation, the nGQL plan generator and the *)
(* interactive executor, run against a graph store with                    *)
(* insert-if-not-exists semantics.                                         *)
(*                                                                         *)
(* Go strings whose bytes the program inspects (codes, names, STIX ids,    *)
(* the operator's answer) are sequences of byte values.  Strings that are  *)
(* only compared for exact equality (type tags, phase names) are TLA+      *)
(* strings.                                                                *)
(***************************************************************************)
EXTENDS Integers, Sequences, FiniteSets, TLC

(***************************************************************************)
(* Bounds of the model.                                                    *)
(***************************************************************************)
MaxRels == 2
MaxRuns == 2
MaxWideRels == 3
MaxIDs == 3
MaxFound == 2

(***************************************************************************)
(* Byte strings.                                                           *)
(***************************************************************************)
\* "mitre-attack"
sMitreAttack == <<109,105,116,114,101,45,97,116,116,97,99,107>>
\* "MITRE-ATTACK"
sMitreAttackUpper == <<77,73,84,82,69,45,65,84,84,65,67,75>>
\* "capec"
sCapec == <<99,97,112,101,99>>
\* "attack-pattern--"
sAttackPatternPrefix == <<97,116,116,97,99,107,45,112,97,116,116,101,114,110,45,45>>
\* "T1071", "T1071.001", "T1565", "T9999"
sT1071 == <<84,49,48,55,49>>
sT1071_001 == <<84,49,48,55,49,46,48,48,49>>
sT1565 == <<84,49,53,54,53>>
sT9999 == <<84,57,57,57,57>>
\* "M1037", "m1037", "M9999"
sM1037 == <<77,49,48,51,55>>
sm1037 == <<109,49,48,51,55>>
sM9999 == <<77,57,57,57,57>>
\* "yes", "y"
sYes == <<121,101,115>>
sY == <<121>>

MinOf(S) == CHOOSE x \in S : \A y \in S : x <= y

\* Go's < on strings: bytewise lexicographic order.
StrLess(a, b) ==
    LET n == IF Len(a) < Len(b) THEN Len(a) ELSE Len(b)
        d == {i \in 1..n : a[i] # b[i]}
    IN  IF d = {} THEN Len(a) < Len(b) ELSE a[MinOf(d)] < b[MinOf(d)]

\* unicode.ToLower on the ASCII range.
LowerByte(c) == IF c \in 65..90 THEN c + 32 ELSE c

\* strings.ToLower
ToLower(s) == [i \in 1..Len(s) |-> LowerByte(s[i])]

\* strings.EqualFold on ASCII strings.
EqualFold(a, b) == ToLower(a) = ToLower(b)

\* The white space strings.TrimSpace and fmt's scanner skip: \t \n \v \f \r ' '.
IsSpace(c) == c \in {9, 10, 11, 12, 13, 32}

RECURSIVE TrimLeft(_)
TrimLeft(s) == IF s # <<>> /\ IsSpace(Head(s)) THEN TrimLeft(Tail(s)) ELSE s

RECURSIVE TrimRight(_)
TrimRight(s) ==
    IF s # <<>> /\ IsSpace(s[Len(s)]) THEN TrimRight(SubSeq(s, 1, Len(s) - 1)) ELSE s

\* strings.TrimSpace
TrimSpace(s) == TrimRight(TrimLeft(s))

\* strings.HasPrefix / strings.TrimPrefix
HasPrefix(s, p) == Len(s) >= Len(p) /\ SubSeq(s, 1, Len(p)) = p
TrimPrefix(s, p) == IF HasPrefix(s, p) THEN SubSeq(s, Len(p) + 1, Len(s)) ELSE s

\* strings.Index(s, "."): 0-based index of the first '.', -1 when absent.
IndexDot(s) ==
    LET d == {i \in 1..Len(s) : s[i] = 46}
    IN  IF d = {} THEN -1 ELSE MinOf(d) - 1


(***************************************************************************)
(* externalID (lines 117-124): the first reference tagged "mitre-attack"   *)
(* (case-insensitively) with a non-empty id; <<>> when there is none.      *)
(***************************************************************************)
ExternalIDHits(refs) ==
    {i \in 1..Len(refs) :
        EqualFold(refs[i].source_name, sMitreAttack) /\ refs[i].external_id # <<>>}

externalID(refs) ==
    IF ExternalIDHits(refs) = {} THEN <<>>
    ELSE refs[MinOf(ExternalIDHits(refs))].external_id

externalIDok(refs) == ExternalIDHits(refs) # {}

(***************************************************************************)
(* Quoting (lines 381-390).                                                *)
(***************************************************************************)
RECURSIVE DoubleQuotes(_)
DoubleQuotes(s) ==
    IF s = <<>> THEN <<>>
    ELSE IF Head(s) = 34 THEN <<34, 34>> \o DoubleQuotes(Tail(s))
    ELSE <<Head(s)>> \o DoubleQuotes(Tail(s))

\* Mutant of quoteID: the ReplaceAll is left out.
quoteIDPlain(s) == <<34>> \o s \o <<34>>

\* quoteID: double every '"' and wrap in '"'.
quoteID(s) == <<34>> \o DoubleQuotes(s) \o <<34>>

\* strconv.Quote on printable ASCII and line feed: '"' and '\' get a
\* backslash, a line feed becomes \n, the rest is copied.
RECURSIVE GoEscape(_)
GoEscape(s) ==
    IF s = <<>> THEN <<>>
    ELSE (IF Head(s) = 34 THEN <<92, 34>>
          ELSE IF Head(s) = 92 THEN <<92, 92>>
          ELSE IF Head(s) = 10 THEN <<92, 110>>
          ELSE <<Head(s)>>) \o GoEscape(Tail(s))

quoteLiteral(s) == <<34>> \o GoEscape(s) \o <<34>>

\* fmt.Sprintf(`"%s"`, id) of the queries (lines 289, 311, 663): no escaping.
rawQuote(s) == <<34>> \o s \o <<34>>

(***************************************************************************)
(* Hierarchy and category derivation (lines 392-421).                      *)
(***************************************************************************)
isSubtechnique(techID) == IndexDot(techID) >= 0

\* Mutant of getParentTechniqueID: the test is idx >= 0.
getParentFromZero(techID) ==
    IF IndexDot(techID) >= 0 THEN SubSeq(techID, 1, IndexDot(techID)) ELSE techID

getParentTechniqueID(techID) ==
    IF IndexDot(techID) > 0 THEN SubSeq(techID, 1, IndexDot(techID)) ELSE techID

\* "TA00" followed by two digits.
TA(d1, d2) == <<84, 65, 48, 48, 48 + d1, 48 + d2>>

tacticPhaseToID ==
    [p \in {"reconnaissance", "resource-development", "initial-access",
            "execution", "persistence", "privilege-escalation",
            "defense-evasion", "credential-access", "discovery",
            "lateral-movement", "collection", "command-and-control",
            "exfiltration", "impact"} |->
        CASE p = "reconnaissance"       -> TA(4, 3)
          [] p = "resource-development" -> TA(4, 2)
          [] p = "initial-access"       -> TA(0, 1)
          [] p = "execution"            -> TA(0, 2)
          [] p = "persistence"          -> TA(0, 3)
          [] p = "privilege-escalation" -> TA(0, 4)
          [] p = "defense-evasion"      -> TA(0, 5)
          [] p = "credential-access"    -> TA(0, 6)
          [] p = "discovery"            -> TA(0, 7)
          [] p = "lateral-movement"     -> TA(0, 8)
          [] p = "collection"           -> TA(0, 9)
          [] p = "command-and-control"  -> TA(1, 1)
          [] p = "exfiltration"         -> TA(1, 0)
          [] p = "impact"               -> TA(4, 0)]

(***************************************************************************)
(* Statements.  A statement is the record of the parts the format string   *)
(* of an INSERT line is filled with; the fixed text of the line is its     *)
(* tag and its defaults.                                                   *)
(***************************************************************************)
VertexDefaults == "\"18.0\", false, 4, 0.1667, 120"
MitigatesDefaults == "NULL, \"Enterprise\""
NoDefaults == ""

Stmt(tag, src, dst, id, name, defaults) ==
    [tag |-> tag, src |-> src, dst |-> dst, id |-> id, name |-> name,
     defaults |-> defaults]

RECURSIVE Flatten(_)
Flatten(ss) == IF ss = <<>> THEN <<>> ELSE Head(ss) \o Flatten(Tail(ss))

\* missingMap[id] (lines 431-434, 518-521)
InMissing(missingTechniques, id) ==
    \E i \in 1..Len(missingTechniques) : missingTechniques[i] = id

\* Mutant of MissingOf: missingMap is not consulted.
MissingOfEvery(techniques, missingTechniques) == techniques

MissingOf(techniques, missingTechniques) ==
    SelectSeq(techniques, LAMBDA t : InMissing(missingTechniques, t.ExternalID))

MappedTactics(t) == SelectSeq(t.Tactics, LAMBDA p : p \in DOMAIN tacticPhaseToID)

(***************************************************************************)
(* generateNGQL (lines 423-509): the INSERT lines of the script, in the    *)
(* order they are written.  Comment lines are left out.                    *)
(***************************************************************************)
GenStep1(techniques, missingTechniques) ==
    LET m == MissingOf(techniques, missingTechniques)
    IN  [i \in 1..Len(m) |->
            Stmt("tMitreTechnique", quoteID(m[i].ExternalID), <<>>,
                 quoteLiteral(m[i].ExternalID), quoteLiteral(m[i].Name),
                 VertexDefaults)]

\* Mutant of GenStep2: the isSubtechnique test is left out.
GenStep2EveryMissing(techniques, missingTechniques) ==
    LET m == MissingOf(techniques, missingTechniques)
    IN  [i \in 1..Len(m) |->
            Stmt("has_subtechnique",
                 quoteID(getParentTechniqueID(m[i].ExternalID)),
                 quoteID(m[i].ExternalID), <<>>, <<>>, NoDefaults)]

\* Mutant of GenStep2: the edge is written only when the parent is one of
\* the missing techniques.
GenStep2ParentMissing(techniques, missingTechniques) ==
    LET m == SelectSeq(MissingOf(techniques, missingTechniques),
                       LAMBDA t : /\ isSubtechnique(t.ExternalID)
                                  /\ InMissing(missingTechniques,
                                               getParentTechniqueID(t.ExternalID)))
    IN  [i \in 1..Len(m) |->
            Stmt("has_subtechnique",
                 quoteID(getParentTechniqueID(m[i].ExternalID)),
                 quoteID(m[i].ExternalID), <<>>, <<>>, NoDefaults)]

GenStep2(techniques, missingTechniques) ==
    LET m == SelectSeq(MissingOf(techniques, missingTechniques),
                       LAMBDA t : isSubtechnique(t.ExternalID))
    IN  [i \in 1..Len(m) |->
            Stmt("has_subtechnique",
                 quoteID(getParentTechniqueID(m[i].ExternalID)),
                 quoteID(m[i].ExternalID), <<>>, <<>>, NoDefaults)]

\* Mutant of GenStep3: the inner loop ends at the first unmapped phase.
RECURSIVE MappedUntilUnknown(_)
MappedUntilUnknown(tactics) ==
    IF tactics = <<>> \/ Head(tactics) \notin DOMAIN tacticPhaseToID THEN <<>>
    ELSE <<Head(tactics)>> \o MappedUntilUnknown(Tail(tactics))

GenStep3StopAtUnknown(techniques, missingTechniques) ==
    LET m == MissingOf(techniques, missingTechniques)
    IN  Flatten([i \in 1..Len(m) |->
            [j \in 1..Len(MappedUntilUnknown(m[i].Tactics)) |->
                Stmt("part_of", quoteID(m[i].ExternalID),
                     quoteID(tacticPhaseToID[MappedUntilUnknown(m[i].Tactics)[j]]),
                     <<>>, <<>>, NoDefaults)]])

GenStep3(techniques, missingTechniques) ==
    LET m == MissingOf(techniques, missingTechniques)
    IN  Flatten([i \in 1..Len(m) |->
            [j \in 1..Len(MappedTactics(m[i])) |->
                Stmt("part_of", quoteID(m[i].ExternalID),
                     quoteID(tacticPhaseToID[MappedTactics(m[i])[j]]),
                     <<>>, <<>>, NoDefaults)]])

\* Mutant of GenStep4: a technique whose code is T1071 gets no edge.
GenStep4SkipsPresent(mitigationID, techniques) ==
    LET m == SelectSeq(techniques, LAMBDA t : StrLess(<<84,49,48,55,49>>, t.ExternalID))
    IN  [i \in 1..Len(m) |->
            Stmt("mitigates", quoteID(mitigationID), quoteID(m[i].ExternalID),
                 <<>>, <<>>, MitigatesDefaults)]

GenStep4(mitigationID, techniques) ==
    [i \in 1..Len(techniques) |->
        Stmt("mitigates", quoteID(mitigationID), quoteID(techniques[i].ExternalID),
             <<>>, <<>>, MitigatesDefaults)]

generateNGQL(mitigationID, techniques, missingTechniques) ==
    (IF Len(missingTechniques) > 0
     THEN GenStep1(techniques, missingTechniques)
          \o GenStep2(techniques, missingTechniques)
          \o GenStep3(techniques, missingTechniques)
     ELSE <<>>)
    \o GenStep4(mitigationID, techniques)

(***************************************************************************)
(* executeNGQL (lines 516-659): the counts of the summary and the          *)
(* statements of each step, in the order the loops issue them.             *)
(***************************************************************************)
techInserts(techniques, missingTechniques) ==
    Len(MissingOf(techniques, missingTechniques))

subtechEdges(techniques, missingTechniques) ==
    Len(SelectSeq(MissingOf(techniques, missingTechniques),
                  LAMBDA t : isSubtechnique(t.ExternalID)))

RECURSIVE SumLens(_)
SumLens(ss) == IF ss = <<>> THEN 0 ELSE Len(Head(ss)) + SumLens(Tail(ss))

\* Mutant of tacticEdges: every phase is counted, mapped or not.
tacticEdgesEveryPhase(techniques, missingTechniques) ==
    LET m == MissingOf(techniques, missingTechniques)
    IN  SumLens([i \in 1..Len(m) |-> m[i].Tactics])

tacticEdges(techniques, missingTechniques) ==
    LET m == MissingOf(techniques, missingTechniques)
    IN  SumLens([i \in 1..Len(m) |-> MappedTactics(m[i])])

mitigatesEdges(techniques) == Len(techniques)

\* Mutant of ExecStep1: the loop stops after its first statement.
ExecStep1FirstOnly(techniques, missingTechniques) ==
    LET m == MissingOf(techniques, missingTechniques)
    IN  IF Len(m) = 0 THEN <<>>
        ELSE << Stmt("tMitreTechnique", quoteID(m[1].ExternalID), <<>>,
                     quoteLiteral(m[1].ExternalID), quoteLiteral(m[1].Name),
                     VertexDefaults) >>

ExecStep1(techniques, missingTechniques) ==
    IF techInserts(techniques, missingTechniques) > 0
    THEN LET m == MissingOf(techniques, missingTechniques)
         IN  [i \in 1..Len(m) |->
                Stmt("tMitreTechnique", quoteID(m[i].ExternalID), <<>>,
                     quoteLiteral(m[i].ExternalID), quoteLiteral(m[i].Name),
                     VertexDefaults)]
    ELSE <<>>

ExecStep2(techniques, missingTechniques) ==
    IF subtechEdges(techniques, missingTechniques) > 0
    THEN LET m == SelectSeq(MissingOf(techniques, missingTechniques),
                            LAMBDA t : isSubtechnique(t.ExternalID))
         IN  [i \in 1..Len(m) |->
                Stmt("has_subtechnique",
                     quoteID(getParentTechniqueID(m[i].ExternalID)),
                     quoteID(m[i].ExternalID), <<>>, <<>>, NoDefaults)]
    ELSE <<>>

ExecStep3(techniques, missingTechniques) ==
    IF tacticEdges(techniques, missingTechniques) > 0
    THEN LET m == MissingOf(techniques, missingTechniques)
         IN  Flatten([i \in 1..Len(m) |->
                [j \in 1..Len(MappedTactics(m[i])) |->
                    Stmt("part_of", quoteID(m[i].ExternalID),
                         quoteID(tacticPhaseToID[MappedTactics(m[i])[j]]),
                         <<>>, <<>>, NoDefaults)]])
    ELSE <<>>

\* Mutant of ExecStep4: only the first behavior gets its mitigates edge.
ExecStep4FirstOnly(mitigationID, techniques) ==
    IF techniques = <<>> THEN <<>>
    ELSE << Stmt("mitigates", quoteID(mitigationID),
                 quoteID(techniques[1].ExternalID), <<>>, <<>>, MitigatesDefaults) >>

ExecStep4(mitigationID, techniques) ==
    [i \in 1..Len(techniques) |->
        Stmt("mitigates", quoteID(mitigationID), quoteID(techniques[i].ExternalID),
             <<>>, <<>>, MitigatesDefaults)]

\* Mutant of ExecPlan: the edges of steps 2 and 3 go out before the
\* vertices of step 1.
ExecPlanEdgesFirst(mitigationID, techniques, missingTechniques) ==
    ExecStep2(techniques, missingTechniques)
    \o ExecStep3(techniques, missingTechniques)
    \o ExecStep1(techniques, missingTechniques)
    \o ExecStep4(mitigationID, techniques)

\* The statements a confirmed execution issues when none fails.
ExecPlan(mitigationID, techniques, missingTechniques) ==
    ExecStep1(techniques, missingTechniques)
    \o ExecStep2(techniques, missingTechniques)
    \o ExecStep3(techniques, missingTechniques)
    \o ExecStep4(mitigationID, techniques)

\* The step (1..4) a statement belongs to.
StepOf(stmt) ==
    CASE stmt.tag = "tMitreTechnique"  -> 1
      [] stmt.tag = "has_subtechnique" -> 2
      [] stmt.tag = "part_of"          -> 3
      [] stmt.tag = "mitigates"        -> 4

(***************************************************************************)
(* findMissingTechniques (lines 359-372): the requested ids the oracle's   *)
(* list does not hold, in the order requested.                             *)
(***************************************************************************)
FoundMap(foundTechniques) == {foundTechniques[i] : i \in 1..Len(foundTechniques)}

\* Mutant of MissingFrom: the test of foundMap is inverted.
MissingFromInverted(techniqueIDs, foundTechniques) ==
    SelectSeq(techniqueIDs, LAMBDA id : id \in FoundMap(foundTechniques))

MissingFrom(techniqueIDs, foundTechniques) ==
    SelectSeq(techniqueIDs, LAMBDA id : id \notin FoundMap(foundTechniques))

\* lines 304-306: nothing is asked, and nothing is missing, of an empty list.
findMissingTechniques(techniqueIDs, foundTechniques) ==
    IF Len(techniqueIDs) = 0 THEN <<>>
    ELSE MissingFrom(techniqueIDs, foundTechniques)

(***************************************************************************)
(* The bundle: bundle.Objects after the envelope is decoded.  ok = FALSE   *)
(* is a record json.Unmarshal rejects.                                     *)
(***************************************************************************)
Obj(type, id, name, refs, kill, rtype, src, tgt) ==
    [type |-> type, ok |-> TRUE, id |-> id, name |-> name, refs |-> refs,
     kill |-> kill, relationship_type |-> rtype, source_ref |-> src,
     target_ref |-> tgt]

Ref(source, id) == [source_name |-> source, external_id |-> id]
Kc(chain, phase) == [kill_chain_name |-> chain, phase_name |-> phase]

CourseOfAction(id, name, refs) ==
    Obj("course-of-action", id, name, refs, <<>>, "", <<>>, <<>>)
AttackPattern(id, name, refs, kill) ==
    Obj("attack-pattern", id, name, refs, kill, "", <<>>, <<>>)
Relationship(rtype, src, tgt) ==
    Obj("relationship", <<>>, <<>>, <<>>, <<>>, rtype, src, tgt)

\* STIX ids: "m1", "m2"; "attack-pattern--" followed by "a1".."a3", "u4".
idM1 == <<109,49>>
idM2 == <<109,50>>
idA1 == sAttackPatternPrefix \o <<97,49>>
idA2 == sAttackPatternPrefix \o <<97,50>>
idA3 == sAttackPatternPrefix \o <<97,51>>
idA4 == sAttackPatternPrefix \o <<117,52>>
idGone == sAttackPatternPrefix \o <<97,57>>

\* Display names: "Filter", "No Ref", "App", "Web", "Dup", "Raw".
nFilter == <<70,105,108,116,101,114>>
nNoRef == <<78,111,32,82,101,102>>
nApp == <<65,112,112>>
nWeb == <<87,101,98>>
nDup == <<68,117,112>>
nRaw == <<82,97,119>>

\* The catalog part of every bundle: two countermeasures (one without a
\* "mitre-attack" reference), four behaviors (two sharing the code T1071,
\* one sub-behavior, one without a "mitre-attack" reference), one record
\* of another type and one malformed record.
Catalog ==
    << CourseOfAction(idM1, nFilter, <<Ref(sMitreAttack, sM1037)>>),
       CourseOfAction(idM2, nNoRef, <<Ref(sCapec, sM9999)>>),
       AttackPattern(idA1, nApp,
                     <<Ref(sCapec, sT9999), Ref(sMitreAttackUpper, sT1071)>>,
                     <<Kc(sMitreAttack, "command-and-control")>>),
       AttackPattern(idA2, nWeb, <<Ref(sMitreAttack, sT1071_001)>>,
                     <<Kc(sMitreAttack, "command-and-control"),
                       Kc(sCapec, "execution"),
                       Kc(sMitreAttack, "unknown-phase"),
                       Kc(sMitreAttack, "persistence")>>),
       AttackPattern(idA3, nDup, <<Ref(sMitreAttack, sT1071)>>,
                     <<Kc(sMitreAttack, "execution")>>),
       AttackPattern(idA4, nRaw, <<Ref(sMitreAttack, <<>>)>>, <<>>),
       Obj("malware", idGone, nRaw, <<>>, <<>>, "", <<>>, <<>>),
       [AttackPattern(idGone, nRaw, <<>>, <<>>) EXCEPT !.ok = FALSE] >>

\* The relationship records a bundle draws from: the runs against a store
\* draw from RelPool, the collector alone from WideRelPool.
RelPool ==
    { Relationship("mitigates", idM1, idA1),
      Relationship("mitigates", idM1, idA2),
      Relationship("mitigates", idM1, idA3),
      Relationship("mitigates", idM1, idA4),
      Relationship("mitigates", idM2, idA2) }

WideRelPool ==
    RelPool \cup
    { Relationship("uses", idM1, idA4),
      Relationship("mitigates", idM1, idGone),
      [Relationship("mitigates", idM1, idA2) EXCEPT !.ok = FALSE] }

SeqsUpTo(S, n) == UNION {[1..k -> S] : k \in 0..n}

\* bundle.Objects: the catalog records, then the relationship records.
Objects(relObjects) == Catalog \o relObjects

(***************************************************************************)
(* Building the lookup maps (lines 776-803).                               *)
(***************************************************************************)
EmptyMap == [x \in {} |-> x]

RECURSIVE BuildMap(_, _)
BuildMap(objs, type) ==
    IF objs = <<>> THEN EmptyMap
    ELSE LET o == objs[Len(objs)]
             rest == BuildMap(SubSeq(objs, 1, Len(objs) - 1), type)
         IN  IF o.ok /\ o.type = type THEN (o.id :> o) @@ rest ELSE rest

mitMapOf(objs) == BuildMap(objs, "course-of-action")
techMapOf(objs) == BuildMap(objs, "attack-pattern")
relsOf(objs) == SelectSeq(objs, LAMBDA o : o.ok /\ o.type = "relationship")

(***************************************************************************)
(* Finding the requested mitigation (lines 808-835).  The map is ranged    *)
(* over in an unspecified order: any match may be the one chosen.          *)
(***************************************************************************)
MatchesByID(mitMap, mitID) ==
    {id \in DOMAIN mitMap :
        externalIDok(mitMap[id].refs)
        /\ EqualFold(externalID(mitMap[id].refs), mitID)}

\* Mutant of MatchesByName: the query is compared as typed.
MatchesByNameUntrimmed(mitMap, mitName) ==
    {id \in DOMAIN mitMap : EqualFold(mitMap[id].name, mitName)}

\* Mutant of MatchesByName: a name that starts with the query matches.
MatchesByNamePrefix(mitMap, mitName) ==
    {id \in DOMAIN mitMap :
        HasPrefix(ToLower(mitMap[id].name), ToLower(TrimSpace(mitName)))}

MatchesByName(mitMap, mitName) ==
    {id \in DOMAIN mitMap : EqualFold(mitMap[id].name, TrimSpace(mitName))}

Matches(mitMap, mitID, mitName) ==
    IF mitID # <<>> THEN MatchesByID(mitMap, mitID)
    ELSE MatchesByName(mitMap, mitName)

(***************************************************************************)
(* Collecting the techniques (lines 840-885).                              *)
(***************************************************************************)
\* The code of a technique: its external id, or its STIX id without the
\* "attack-pattern--" prefix (lines 852-855).
CodeOf(tp) ==
    IF externalID(tp.refs) = <<>> THEN TrimPrefix(tp.id, sAttackPatternPrefix)
    ELSE externalID(tp.refs)

\* lines 867-872
TacticsOf(tp) ==
    LET k == SelectSeq(tp.kill, LAMBDA kc : kc.kill_chain_name = sMitreAttack)
    IN  [i \in 1..Len(k) |-> k[i].phase_name]

TechniqueInfo(tp) ==
    [ExternalID |-> CodeOf(tp), Name |-> tp.name, Tactics |-> TacticsOf(tp)]

Codes(techniques) == {techniques[i].ExternalID : i \in 1..Len(techniques)}

\* Mutant of CollectLoop: the relationship type is not looked at.
RECURSIVE CollectLoopAnyType(_, _, _, _)
CollectLoopAnyType(rels, chosen, techMap, acc) ==
    IF rels = <<>> THEN acc
    ELSE LET r == Head(rels)
             keep == /\ r.source_ref = chosen
                     /\ r.target_ref \in DOMAIN techMap
                     /\ CodeOf(techMap[r.target_ref]) \notin Codes(acc)
         IN  CollectLoopAnyType(Tail(rels), chosen, techMap,
                                IF keep
                                THEN Append(acc, TechniqueInfo(techMap[r.target_ref]))
                                ELSE acc)

\* Mutant of CollectLoop: a code seen again replaces the entry it has.
RECURSIVE CollectLoopLastWins(_, _, _, _)
CollectLoopLastWins(rels, chosen, techMap, acc) ==
    IF rels = <<>> THEN acc
    ELSE LET r == Head(rels)
             keep == /\ r.relationship_type = "mitigates"
                     /\ r.source_ref = chosen
                     /\ r.target_ref \in DOMAIN techMap
         IN  CollectLoopLastWins(Tail(rels), chosen, techMap,
                 IF ~keep THEN acc
                 ELSE IF CodeOf(techMap[r.target_ref]) \in Codes(acc)
                 THEN [i \in 1..Len(acc) |->
                          IF acc[i].ExternalID = CodeOf(techMap[r.target_ref])
                          THEN TechniqueInfo(techMap[r.target_ref]) ELSE acc[i]]
                 ELSE Append(acc, TechniqueInfo(techMap[r.target_ref])))

\* The loop of lines 843-880: acc is results, Codes(acc) is seenTechniques.
RECURSIVE CollectLoop(_, _, _, _)
CollectLoop(rels, chosen, techMap, acc) ==
    IF rels = <<>> THEN acc
    ELSE LET r == Head(rels)
             keep == /\ r.relationship_type = "mitigates"
                     /\ r.source_ref = chosen
                     /\ r.target_ref \in DOMAIN techMap
                     /\ CodeOf(techMap[r.target_ref]) \notin Codes(acc)
         IN  CollectLoop(Tail(rels), chosen, techMap,
                         IF keep
                         THEN Append(acc, TechniqueInfo(techMap[r.target_ref]))
                         ELSE acc)

\* sort.Slice by ExternalID (lines 883-885), as an insertion sort.
\* Mutant of InsertByCode: the element is appended, whatever its code.
InsertAtEnd(sorted, t) == Append(sorted, t)

RECURSIVE InsertByCode(_, _)
InsertByCode(sorted, t) ==
    IF sorted = <<>> THEN <<t>>
    ELSE IF StrLess(t.ExternalID, Head(sorted).ExternalID) THEN <<t>> \o sorted
    ELSE <<Head(sorted)>> \o InsertByCode(Tail(sorted), t)

RECURSIVE SortByCode(_)
SortByCode(ts) ==
    IF ts = <<>> THEN <<>>
    ELSE InsertByCode(SortByCode(SubSeq(ts, 1, Len(ts) - 1)), ts[Len(ts)])

Collect(objs, chosen) ==
    SortByCode(CollectLoop(relsOf(objs), chosen, techMapOf(objs), <<>>))

\* allTechIDs (lines 925-928)
AllTechIDs(techniques) == [i \in 1..Len(techniques) |-> techniques[i].ExternalID]

(***************************************************************************)
(* The graph store behind the session: technique vertices, mitigation      *)
(* vertices and edges, with the INSERT ... IF NOT EXISTS semantics the     *)
(* statements ask for.  The store reads a quoted id back by undoubling.    *)
(***************************************************************************)
RECURSIVE Undouble(_)
Undouble(s) ==
    IF s = <<>> THEN <<>>
    ELSE IF Len(s) >= 2 /\ s[1] = 34 /\ s[2] = 34
         THEN <<34>> \o Undouble(SubSeq(s, 3, Len(s)))
    ELSE <<Head(s)>> \o Undouble(Tail(s))

StoreUnquote(text) == Undouble(SubSeq(text, 2, Len(text) - 1))

Node(vid, id, name, defaults) ==
    [vid |-> vid, id |-> id, name |-> name, defaults |-> defaults]
Edge(tag, src, dst, defaults) ==
    [tag |-> tag, src |-> src, dst |-> dst, defaults |-> defaults]

\* INSERT VERTEX IF NOT EXISTS / INSERT EDGE IF NOT EXISTS (lines 575, 601,
\* 627, 647): nothing changes when the vertex id, or the edge's
\* (type, source, target, rank 0), is already there.
StoreApply(st, stmt) ==
    IF stmt.tag = "tMitreTechnique"
    THEN IF \E n \in st.tech : n.vid = StoreUnquote(stmt.src) THEN st
         ELSE [st EXCEPT !.tech = @ \cup
                 {Node(StoreUnquote(stmt.src), stmt.id, stmt.name, stmt.defaults)}]
    ELSE IF \E e \in st.edges : /\ e.tag = stmt.tag
                                /\ e.src = StoreUnquote(stmt.src)
                                /\ e.dst = StoreUnquote(stmt.dst)
         THEN st
         ELSE [st EXCEPT !.edges = @ \cup
                 {Edge(stmt.tag, StoreUnquote(stmt.src), StoreUnquote(stmt.dst),
                       stmt.defaults)}]

\* MATCH (m:tMitreMitigation) WHERE id(m) == "..." (line 289)
StoreHasMitigation(st, quoted) == StoreUnquote(quoted) \in st.mit

RECURSIVE SetToSeq(_)
SetToSeq(S) ==
    IF S = {} THEN <<>>
    ELSE LET x == CHOOSE x \in S : TRUE IN <<x>> \o SetToSeq(S \ {x})

\* Mutant of StoreFind: the reply is read as holding no list.
StoreFindNothing(st, quotedIDs) == <<>>

\* MATCH (t:tMitreTechnique) WHERE id(t) IN [...] RETURN collect(id(t))
\* (line 315): the list of the vertex ids found.
StoreFind(st, quotedIDs) ==
    SetToSeq({n.vid : n \in {n \in st.tech :
        \E i \in 1..Len(quotedIDs) : StoreUnquote(quotedIDs[i]) = n.vid}})

\* MATCH (m:tMitreMitigation)-[e:mitigates]->(t) WHERE id(m) == "..."
\* RETURN COUNT(e) (line 663)
StoreCount(st, quoted) ==
    IF StoreUnquote(quoted) \in st.mit
    THEN Cardinality({e \in st.edges :
            e.tag = "mitigates" /\ e.src = StoreUnquote(quoted)})
    ELSE 0

\* Vertices and edges a store may hold before the first run.
OldNodes ==
    { Node(sT1071, quoteLiteral(sT1071), quoteLiteral(nDup), "old"),
      Node(sT1071_001, quoteLiteral(sT1071_001), quoteLiteral(nWeb), "old") }
StaleNode == Node(sT1565, quoteLiteral(sT1565), quoteLiteral(nRaw), "old")
StaleEdge == Edge("mitigates", sM1037, sT1565, MitigatesDefaults)

Stores ==
    {[tech |-> {}, mit |-> {}, edges |-> {}]}
    \cup {[tech |-> t, mit |-> {sM1037}, edges |-> {}] : t \in SUBSET OldNodes}
    \cup {[tech |-> t \cup {StaleNode}, mit |-> {sM1037}, edges |-> {StaleEdge}] :
            t \in SUBSET OldNodes}

(***************************************************************************)
(* The command line (lines 717-730).                                       *)
(***************************************************************************)
Args(execute, ngql, nodb, mitigation, mitigationName) ==
    [execute |-> execute, ngql |-> ngql, nodb |-> nodb,
     mitigation |-> mitigation, mitigationName |-> mitigationName]

\* -mitigation m1037 | -mitigation-name " no ref " | -mitigation M9999 | none
qByCode == <<sm1037, <<>>>>
qByName == <<<<>>, <<32>> \o ToLower(nNoRef) \o <<32>>>>
qUnknown == <<sM9999, <<>>>>
qNone == <<<<>>, <<>>>>

\* -execute | -ngql | -ngql -no-db | (table)
ArgsSet ==
    {Args(TRUE, FALSE, FALSE, q[1], q[2]) : q \in {qByCode, qByName, qUnknown, qNone}}
    \cup {Args(FALSE, TRUE, FALSE, q[1], q[2]) : q \in {qByCode, qByName}}
    \cup {Args(FALSE, TRUE, TRUE, q[1], q[2]) : q \in {qByCode, qByName}}
    \cup {Args(FALSE, FALSE, FALSE, q[1], q[2]) : q \in {qByCode}}

(***************************************************************************)
(* The operator's answer to the prompt (lines 555-558).  fmt.Scanln reads  *)
(* one space-delimited word of the line into response; an empty line       *)
(* leaves response empty.                                                  *)
(***************************************************************************)
RECURSIVE FirstWord(_)
FirstWord(s) ==
    IF s = <<>> \/ IsSpace(Head(s)) THEN <<>>
    ELSE <<Head(s)>> \o FirstWord(Tail(s))

Scanln(line) == FirstWord(TrimLeft(line))

ResponseOf(line) == ToLower(TrimSpace(Scanln(line)))

\* Mutant of Affirmative: every answer passes.
AffirmativeAny(word) == TRUE

Affirmative(word) == word = sYes \/ word = sY

\* "", "no", " Y", "yes no"
Answers == { <<>>, <<110,111>>, <<32,89>>, sYes \o <<32,110,111>> }

(***************************************************************************)
(* State.                                                                  *)
(***************************************************************************)
VARIABLES
    relObjects,         \* the records of bundle.Objects after the catalog
    args,               \* the command line
    store,              \* the graph store
    store0,             \* the store when this run started
    runNo,              \* invocations of the tool so far
    prev,               \* what the previous invocation left (see Snapshot)
    peer,               \* the run state of a second instance of the tool
                        \* working on the same store, while it is not the
                        \* one taking steps (see Switch)
    pc,                 \* "start", "connect", "check", "find", "confirm",
                        \* "exec", "verify", "done"
    chosenMitSTIXID, results, mitExt, mitName,
    foundTechniques,    \* the list the existing-subset query returned
    missingTechniques,
    script,             \* the INSERT lines generateNGQL wrote
    summary,            \* the four counts of the execution summary
    response,           \* executeNGQL's response
    answerYes,          \* the operator's whole line, trimmed and lower-cased,
                        \* was "yes" or "y"
    ip,                 \* next statement of the plan
    log,                \* the operations sent to the store, in order
    exitCode,           \* -1 while running
    outcome,            \* how the run ended
    errStmt,            \* the statement the returned error names
    status, actualCount \* the verification results

runVars == <<pc, chosenMitSTIXID, results, mitExt, mitName, foundTechniques,
             missingTechniques,
             script, summary, response, answerYes, ip, log, exitCode, outcome,
             errStmt, status, actualCount>>
vars == <<relObjects, args, store, store0, runNo, prev, peer, runVars>>

NoStmt == Stmt("", <<>>, <<>>, <<>>, <<>>, "")
LogEntry(op, stmt, ok) == [op |-> op, stmt |-> stmt, ok |-> ok]

Snapshot ==
    [ran |-> TRUE, store0 |-> store0, log |-> log, exitCode |-> exitCode,
     outcome |-> outcome, status |-> status]

NoSnapshot ==
    [ran |-> FALSE, store0 |-> [tech |-> {}, mit |-> {}, edges |-> {}],
     log |-> <<>>, exitCode |-> -1, outcome |-> "", status |-> ""]

\* The state of a run at process start.
RunInit ==
    /\ pc = "start"
    /\ chosenMitSTIXID = <<>>
    /\ results = <<>>
    /\ mitExt = <<>>
    /\ mitName = <<>>
    /\ foundTechniques = <<>>
    /\ missingTechniques = <<>>
    /\ script = <<>>
    /\ summary = <<0, 0, 0, 0>>
    /\ response = <<>>
    /\ answerYes = FALSE
    /\ ip = 1
    /\ log = <<>>
    /\ exitCode = -1
    /\ outcome = ""
    /\ errStmt = NoStmt
    /\ status = ""
    /\ actualCount = 0

\* The run state of a process that has just started, as a record, and the
\* record that stands for there being no second instance.
FreshRun ==
    [ pc |-> "start", chosenMitSTIXID |-> <<>>, results |-> <<>>,
      mitExt |-> <<>>, mitName |-> <<>>, foundTechniques |-> <<>>,
      missingTechniques |-> <<>>, script |-> <<>>,
      summary |-> <<0, 0, 0, 0>>, response |-> <<>>, answerYes |-> FALSE,
      ip |-> 1, log |-> <<>>, exitCode |-> -1, outcome |-> "",
      errStmt |-> NoStmt, status |-> "", actualCount |-> 0 ]

NoPeer == [FreshRun EXCEPT !.pc = "none"]

\* The run state of the instance that is taking steps.
RunState ==
    [ pc |-> pc, chosenMitSTIXID |-> chosenMitSTIXID, results |-> results,
      mitExt |-> mitExt, mitName |-> mitName,
      foundTechniques |-> foundTechniques,
      missingTechniques |-> missingTechniques, script |-> script,
      summary |-> summary, response |-> response, answerYes |-> answerYes,
      ip |-> ip, log |-> log, exitCode |-> exitCode, outcome |-> outcome,
      errStmt |-> errStmt, status |-> status, actualCount |-> actualCount ]

Init ==
    /\ relObjects \in SeqsUpTo(RelPool, MaxRels)
    /\ args \in ArgsSet
    /\ store \in Stores
    /\ store0 = store
    /\ runNo = 1
    /\ prev = NoSnapshot
    /\ peer = NoPeer
    /\ RunInit

\* os.Exit(code), or main returning (code 0).
Exit(code, how) ==
    /\ pc' = "done"
    /\ exitCode' = code
    /\ outcome' = how

(***************************************************************************)
(* main up to the first use of the store (lines 713-893, 950-959,          *)
(* 1011-1029).                                                             *)
(***************************************************************************)
Start ==
    /\ pc = "start"
    /\ UNCHANGED <<relObjects, args, store, store0, runNo, prev, peer, foundTechniques,
                   missingTechniques, summary, response, answerYes, ip, log, errStmt, status,
                   actualCount>>
    /\ IF args.mitigation = <<>> /\ args.mitigationName = <<>>
       THEN /\ Exit(1, "usage")
            /\ UNCHANGED <<chosenMitSTIXID, results, mitExt, mitName, script>>
       ELSE \E loaded \in BOOLEAN :
            IF ~loaded
            THEN /\ Exit(1, "bundle")
                 /\ UNCHANGED <<chosenMitSTIXID, results, mitExt, mitName, script>>
            ELSE LET mitMap == mitMapOf(Objects(relObjects))
                     found == Matches(mitMap, args.mitigation, args.mitigationName)
                 IN  IF found = {}
                     THEN /\ Exit(1, "not found")
                          /\ UNCHANGED <<chosenMitSTIXID, results, mitExt,
                                         mitName, script>>
                     ELSE \E c \in found :
                          /\ chosenMitSTIXID' = c
                          /\ results' = Collect(Objects(relObjects), c)
                          /\ mitExt' = externalID(mitMap[c].refs)
                          /\ mitName' = mitMap[c].name
                          /\ IF args.execute
                             THEN /\ pc' = "connect"
                                  /\ UNCHANGED <<script, exitCode, outcome>>
                             ELSE IF args.ngql /\ args.nodb
                             THEN /\ script' = generateNGQL(mitExt', results',
                                                            AllTechIDs(results'))
                                  /\ Exit(0, "script")
                             ELSE IF args.ngql
                             THEN /\ pc' = "connect"
                                  /\ UNCHANGED <<script, exitCode, outcome>>
                             ELSE /\ Exit(0, "listed")
                                  /\ UNCHANGED script

(***************************************************************************)
(* connectNebula (lines 251-280, called at 902 and 967).                   *)
(***************************************************************************)
Connect ==
    /\ pc = "connect"
    /\ \E ok \in BOOLEAN :
        /\ log' = Append(log, LogEntry("connect", NoStmt, ok))
        /\ IF ok THEN pc' = "check" /\ UNCHANGED <<exitCode, outcome>>
                 ELSE Exit(1, "connect failed")
    /\ UNCHANGED <<relObjects, args, store, store0, runNo, prev, peer, chosenMitSTIXID,
                   results, mitExt, mitName, foundTechniques, missingTechniques,
                   script, summary, response, answerYes, ip, errStmt, status,
                   actualCount>>

(***************************************************************************)
(* checkMitigationExists and its callers (lines 288-301, 909-922,          *)
(* 974-986).                                                               *)
(***************************************************************************)
\* Mutant of QueryFailed: the error of the query is dropped.
QueryFailedIgnored(ok) == FALSE

\* if err != nil after session.Execute of a query (lines 292-295, 319-322)
QueryFailed(ok) == ~ok

\* Mutant of MitigationRequired: -execute only warns, as -ngql does.
MitigationNeverRequired(execute, exists) == FALSE

\* lines 916-922: only -execute insists on the mitigation vertex.
MitigationRequired(execute, exists) == execute /\ ~exists

CheckMitigation ==
    /\ pc = "check"
    /\ \E ok \in BOOLEAN :
        /\ log' = Append(log, LogEntry("exists",
                                       Stmt("", rawQuote(mitExt), <<>>, <<>>, <<>>, ""),
                                       ok))
        /\ IF QueryFailed(ok) THEN Exit(1, "check failed")
           ELSE IF MitigationRequired(args.execute,
                                      StoreHasMitigation(store, rawQuote(mitExt)))
           THEN Exit(1, "mitigation missing")
           ELSE pc' = "find" /\ UNCHANGED <<exitCode, outcome>>
    /\ UNCHANGED <<relObjects, args, store, store0, runNo, prev, peer, chosenMitSTIXID,
                   results, mitExt, mitName, foundTechniques, missingTechniques,
                   script, summary, response, answerYes, ip, errStmt, status,
                   actualCount>>

(***************************************************************************)
(* findMissingTechniques and what follows it up to the prompt or the       *)
(* printed script (lines 303-373, 924-942, 988-1006, 516-555).             *)
(***************************************************************************)
QuotedIDs(techniqueIDs) == [i \in 1..Len(techniqueIDs) |-> rawQuote(techniqueIDs[i])]

AfterFind(found, missing) ==
    /\ foundTechniques' = found
    /\ missingTechniques' = missing
    /\ script' = generateNGQL(mitExt, results, missing)
    /\ IF args.execute
       THEN /\ summary' = << techInserts(results, missing),
                             subtechEdges(results, missing),
                             tacticEdges(results, missing),
                             mitigatesEdges(results) >>
            /\ pc' = "confirm"
            /\ UNCHANGED <<exitCode, outcome>>
       ELSE /\ Exit(0, "script")
            /\ UNCHANGED summary

FindMissing ==
    /\ pc = "find"
    /\ LET techniqueIDs == AllTechIDs(results)
       IN  IF Len(techniqueIDs) = 0
           THEN AfterFind(<<>>, <<>>) /\ UNCHANGED log
           ELSE \E ok \in BOOLEAN :
                /\ log' = Append(log, LogEntry("find", NoStmt, ok))
                /\ IF ~QueryFailed(ok)
                   THEN LET found == StoreFind(store, QuotedIDs(techniqueIDs))
                        IN  AfterFind(found,
                                      findMissingTechniques(techniqueIDs, found))
                   ELSE /\ Exit(1, "find failed")
                        /\ UNCHANGED <<foundTechniques, missingTechniques,
                                       script, summary>>
    /\ UNCHANGED <<relObjects, args, store, store0, runNo, prev, peer, chosenMitSTIXID,
                   results, mitExt, mitName, response, answerYes, ip, errStmt,
                   status, actualCount>>

(***************************************************************************)
(* The confirmation prompt (lines 554-565).                                *)
(***************************************************************************)
Confirm ==
    /\ pc = "confirm"
    /\ \E line \in Answers :
        /\ response' = ResponseOf(line)
        /\ answerYes' = Affirmative(ToLower(TrimSpace(line)))
        /\ IF ~Affirmative(response')
           THEN Exit(0, "cancelled")
           ELSE /\ pc' = IF ExecPlan(mitExt, results, missingTechniques) = <<>>
                         THEN "verify" ELSE "exec"
                /\ UNCHANGED <<exitCode, outcome>>
    /\ UNCHANGED <<relObjects, args, store, store0, runNo, prev, peer, chosenMitSTIXID,
                   results, mitExt, mitName, foundTechniques, missingTechniques,
                   script, summary, ip, log, errStmt, status, actualCount>>

(***************************************************************************)
(* One session.Execute of steps 1-4 (lines 567-659).  A statement whose    *)
(* Execute returns an error may or may not have reached the store.         *)
(***************************************************************************)
\* Mutant of ExecFailed: the error of Execute is dropped.
ExecFailedIgnored(ok) == FALSE

\* if _, err := session.Execute(stmt); err != nil (lines 584, 609, 635, 655)
ExecFailed(ok) == ~ok

ExecStmt ==
    /\ pc = "exec"
    /\ LET plan == ExecPlan(mitExt, results, missingTechniques)
           stmt == plan[ip]
       IN  \E ok \in BOOLEAN, applied \in BOOLEAN :
           /\ ok => applied
           /\ store' = IF applied THEN StoreApply(store, stmt) ELSE store
           /\ log' = Append(log, LogEntry("insert", stmt, ok))
           /\ IF ExecFailed(ok)
              THEN /\ Exit(1, "insert failed")
                   /\ errStmt' = stmt
                   /\ UNCHANGED ip
              ELSE /\ ip' = ip + 1
                   /\ pc' = IF ip = Len(plan) THEN "verify" ELSE "exec"
                   /\ UNCHANGED <<exitCode, outcome, errStmt>>
    /\ UNCHANGED <<relObjects, args, store0, runNo, prev, peer, chosenMitSTIXID, results,
                   mitExt, mitName, foundTechniques, missingTechniques, script,
                   summary, response, answerYes, status, actualCount>>

(***************************************************************************)
(* Step 5, the verification (lines 661-705).                               *)
(***************************************************************************)
\* Mutant of VerifyStatus: a count above the expected one passes.
VerifyStatusAtLeast(actual, expected) ==
    IF actual >= expected THEN "SUCCESS" ELSE "MISMATCH"

\* lines 697-701
VerifyStatus(actual, expected) ==
    IF actual = expected THEN "SUCCESS" ELSE "MISMATCH"

Verify ==
    /\ pc = "verify"
    /\ \E ok \in BOOLEAN :
        /\ log' = Append(log, LogEntry("verify",
                                       Stmt("", rawQuote(mitExt), <<>>, <<>>, <<>>, ""),
                                       ok))
        /\ IF ~ok
           THEN /\ Exit(1, "verify failed")
                /\ UNCHANGED <<status, actualCount>>
           ELSE /\ actualCount' = StoreCount(store, rawQuote(mitExt))
                /\ status' = VerifyStatus(actualCount', Len(results))
                /\ Exit(0, "verified")
    /\ UNCHANGED <<relObjects, args, store, store0, runNo, prev, peer, chosenMitSTIXID,
                   results, mitExt, mitName, foundTechniques, missingTechniques,
                   script, summary, response, answerYes, ip, errStmt>>

(***************************************************************************)
(* The operator runs the tool again, with the same command line and the    *)
(* same cached bundle, against the store as the last run left it.  Only    *)
(* -execute runs write the store, so only they are followed up.            *)
(***************************************************************************)
Rerun ==
    /\ pc = "done"
    /\ args.execute
    /\ runNo < MaxRuns
    /\ runNo' = runNo + 1
    /\ prev' = Snapshot
    /\ store0' = store
    /\ pc' = "start"
    /\ chosenMitSTIXID' = <<>>
    /\ results' = <<>>
    /\ mitExt' = <<>>
    /\ mitName' = <<>>
    /\ foundTechniques' = <<>>
    /\ missingTechniques' = <<>>
    /\ script' = <<>>
    /\ summary' = <<0, 0, 0, 0>>
    /\ response' = <<>>
    /\ answerYes' = FALSE
    /\ ip' = 1
    /\ log' = <<>>
    /\ exitCode' = -1
    /\ outcome' = ""
    /\ errStmt' = NoStmt
    /\ status' = ""
    /\ actualCount' = 0
    /\ UNCHANGED <<relObjects, args, store, peer>>

Next ==
    \/ Start
    \/ Connect
    \/ CheckMitigation
    \/ FindMissing
    \/ Confirm
    \/ ExecStmt
    \/ Verify
    \/ Rerun

Spec == Init /\ [][Next]_vars

(***************************************************************************)
(* Two instances of the tool, started with the same command line and the   *)
(* same cached bundle, working on one store.  Each is a process of its own *)
(* with its own session (main, lines 713-1030); the store sees their       *)
(* operations one at a time, in any interleaving.  The variables of a run  *)
(* hold the instance that takes the next step and peer holds the other     *)
(* one; Switch hands the turn over.                                        *)
(***************************************************************************)
MaxPairRels == 2

Switch ==
    /\ peer.pc \notin {"none", "done"}
    /\ peer' = RunState
    /\ pc' = peer.pc
    /\ chosenMitSTIXID' = peer.chosenMitSTIXID
    /\ results' = peer.results
    /\ mitExt' = peer.mitExt
    /\ mitName' = peer.mitName
    /\ foundTechniques' = peer.foundTechniques
    /\ missingTechniques' = peer.missingTechniques
    /\ script' = peer.script
    /\ summary' = peer.summary
    /\ response' = peer.response
    /\ answerYes' = peer.answerYes
    /\ ip' = peer.ip
    /\ log' = peer.log
    /\ exitCode' = peer.exitCode
    /\ outcome' = peer.outcome
    /\ errStmt' = peer.errStmt
    /\ status' = peer.status
    /\ actualCount' = peer.actualCount
    /\ UNCHANGED <<relObjects, args, store, store0, runNo, prev>>

InitPair ==
    /\ relObjects \in SeqsUpTo(RelPool, MaxPairRels)
    /\ args \in {Args(TRUE, FALSE, FALSE, q[1], q[2]) : q \in {qByCode, qByName}}
    /\ store \in Stores
    /\ store0 = store
    /\ runNo = 1
    /\ prev = NoSnapshot
    /\ peer = FreshRun
    /\ RunInit

NextPair ==
    \/ Start
    \/ Connect
    \/ CheckMitigation
    \/ FindMissing
    \/ Confirm
    \/ ExecStmt
    \/ Verify
    \/ Switch

SpecPair == InitPair /\ [][NextPair]_vars

(***************************************************************************)
(* The collector alone: main up to its output, for every bundle over the   *)
(* wide pool of relationship records.                                      *)
(***************************************************************************)
InitCollect ==
    /\ relObjects \in SeqsUpTo(WideRelPool, MaxWideRels)
    /\ args \in {Args(FALSE, FALSE, FALSE, q[1], q[2]) : q \in {qByCode, qByName}}
    /\ store = [tech |-> {}, mit |-> {}, edges |-> {}]
    /\ store0 = store
    /\ runNo = 1
    /\ prev = NoSnapshot
    /\ peer = NoPeer
    /\ RunInit

NextCollect == Start

SpecCollect == InitCollect /\ [][NextCollect]_vars

(***************************************************************************)
(* The resolver: main up to the existence check, for bundles that add      *)
(* countermeasures, a behavior and relationships to the catalog, and for   *)
(* queries by code and by name.                                            *)
(***************************************************************************)
MaxExtra == 3

\* STIX ids "m3", "m4"; names "Pad " and "FILTER"; code "M1050".
idM3 == <<109,51>>
idM4 == <<109,52>>
nPad == <<80,97,100,32>>
nFILTER == <<70,73,76,84,69,82>>
sM1050 == <<77,49,48,53,48>>

\* A countermeasure whose name ends in a space, a countermeasure whose
\* code and name are those of "m1" in another letter case, and a behavior
\* whose id is the bare prefix and that has no reference.
coPad == CourseOfAction(idM3, nPad, <<Ref(sMitreAttack, sM1050)>>)
coTwin == CourseOfAction(idM4, nFILTER, <<Ref(sMitreAttack, sm1037)>>)
apBare == AttackPattern(sAttackPatternPrefix, nRaw, <<>>, <<>>)

ExtraPool ==
    { coPad, coTwin, apBare,
      Relationship("mitigates", idM1, idA2),
      Relationship("mitigates", idM1, idA1),
      Relationship("mitigates", idM4, idA3),
      Relationship("mitigates", idM1, sAttackPatternPrefix) }

\* -mitigation M1037 | m1037 | M1050 | M9999, -mitigation-name "Filter" |
\* " filter\t" | "Pad " | "Filt", and both flags at once.
Queries ==
    { <<sM1037, <<>>>>, <<sm1037, <<>>>>, <<sM1050, <<>>>>, <<sM9999, <<>>>>,
      <<<<>>, nFilter>>, <<<<>>, <<32>> \o ToLower(nFilter) \o <<9>>>>,
      <<<<>>, nPad>>,
      <<<<>>, <<70,105,108,116>>>>,
      <<sM1037, <<122,122>>>> }

InitResolve ==
    /\ relObjects \in SeqsUpTo(ExtraPool, MaxExtra)
    /\ args \in {Args(m[1], FALSE, m[2], q[1], q[2]) :
                    m \in {<<FALSE, FALSE>>, <<TRUE, FALSE>>, <<TRUE, TRUE>>},
                    q \in Queries}
    /\ store = [tech |-> {}, mit |-> {sM1037}, edges |-> {}]
    /\ store0 = store
    /\ runNo = 1
    /\ prev = NoSnapshot
    /\ peer = NoPeer
    /\ RunInit

NextResolve ==
    \/ Start
    \/ Connect
    \/ CheckMitigation

SpecResolve == InitResolve /\ [][NextResolve]_vars

(***************************************************************************)
(* findMissingTechniques alone, on every list of requested ids and every   *)
(* list the oracle may return.                                             *)
(***************************************************************************)
CodePool == {sT1071, sT1071_001, sT1565}
ReplyPool == CodePool \cup {sT9999}

Requested(codes) ==
    [i \in 1..Len(codes) |-> [ExternalID |-> codes[i], Name |-> <<>>, Tactics |-> <<>>]]

InitMissing ==
    /\ relObjects = <<>>
    /\ args = Args(TRUE, FALSE, FALSE, sm1037, <<>>)
    /\ store = [tech |-> {}, mit |-> {}, edges |-> {}]
    /\ store0 = store
    /\ runNo = 1
    /\ prev = NoSnapshot
    /\ peer = NoPeer
    /\ pc = "find"
    /\ chosenMitSTIXID = idM1
    /\ results \in {Requested(c) : c \in SeqsUpTo(CodePool, MaxIDs)}
    /\ mitExt = sM1037
    /\ mitName = nFilter
    /\ foundTechniques \in SeqsUpTo(ReplyPool, MaxFound)
    /\ missingTechniques = <<>>
    /\ script = <<>>
    /\ summary = <<0, 0, 0, 0>>
    /\ response = <<>>
    /\ answerYes = FALSE
    /\ ip = 1
    /\ log = <<>>
    /\ exitCode = -1
    /\ outcome = ""
    /\ errStmt = NoStmt
    /\ status = ""
    /\ actualCount = 0

\* findMissingTechniques applied to the reply held in foundTechniques.
ApplyFindMissing ==
    /\ pc = "find"
    /\ missingTechniques' =
           findMissingTechniques(AllTechIDs(results), foundTechniques)
    /\ pc' = "found"
    /\ UNCHANGED <<relObjects, args, store, store0, runNo, prev, peer, chosenMitSTIXID,
                   results, mitExt, mitName, foundTechniques, script, summary,
                   response, answerYes, ip, log, exitCode, outcome, errStmt,
                   status, actualCount>>

NextMissing == ApplyFindMissing

SpecMissing == InitMissing /\ [][NextMissing]_vars

(***************************************************************************)
(* generateNGQL alone (the calls of lines 958 and 1005), on result lists   *)
(* whose codes, names and phases are drawn from pools: codes over the      *)
(* bytes 'T', '.', '"' and line feed, names with quotes, backslashes and   *)
(* line feeds, phases in and out of the category table.                    *)
(***************************************************************************)
MaxCodeLen == 3
MaxDerived == 2

CodeBytes == {84, 46, 34}

\* A line feed, a backslash.
sLF == <<10>>
sBackslash == <<92>>
\* The names "\"\\" and "A\nB"; the mitigation code "M\"\n".
nQuoteBackslash == <<34, 92>>
nTwoLines == <<65, 10, 66>>
sMQuoteLF == <<77, 34, 10>>

DerivedCodes ==
    SeqsUpTo(CodeBytes, MaxCodeLen) \cup {sLF, sBackslash, sT1071_001}

DerivedTechniques ==
    {[ExternalID |-> c, Name |-> nApp, Tactics |-> <<>>] : c \in DerivedCodes}
    \cup {[ExternalID |-> sT1071_001, Name |-> nWeb,
           Tactics |-> <<"unknown-phase", "persistence">>]}
    \cup {[ExternalID |-> sT1071, Name |-> n, Tactics |-> t] :
            n \in {nApp, nQuoteBackslash, nTwoLines},
            t \in {<<>>, <<"unknown-phase">>,
                   <<"impact", "unknown-phase", "execution", "impact">>}}

\* The lists the collector can hand over: ascending by code, no code twice.
DerivedResults ==
    {r \in SeqsUpTo(DerivedTechniques, MaxDerived) :
        \A i \in 1..(Len(r) - 1) : StrLess(r[i].ExternalID, r[i + 1].ExternalID)}

InitDerive ==
    /\ relObjects = <<>>
    /\ args = Args(FALSE, TRUE, FALSE, sm1037, <<>>)
    /\ store = [tech |-> {}, mit |-> {}, edges |-> {}]
    /\ store0 = store
    /\ runNo = 1
    /\ prev = NoSnapshot
    /\ peer = NoPeer
    /\ pc = "generate"
    /\ chosenMitSTIXID = idM1
    /\ results \in DerivedResults
    /\ mitExt \in {sM1037, sMQuoteLF}
    /\ mitName = nFilter
    /\ foundTechniques \in {<<>>} \cup {<<results[i].ExternalID>> : i \in 1..MinOf({1, Len(results)})}
    /\ missingTechniques = findMissingTechniques(AllTechIDs(results), foundTechniques)
    /\ script = <<>>
    /\ summary = <<0, 0, 0, 0>>
    /\ response = <<>>
    /\ answerYes = FALSE
    /\ ip = 1
    /\ log = <<>>
    /\ exitCode = -1
    /\ outcome = ""
    /\ errStmt = NoStmt
    /\ status = ""
    /\ actualCount = 0

\* script := generateNGQL(mitExt, chosenMit.Name, results, missingTechniques)
ApplyGenerate ==
    /\ pc = "generate"
    /\ script' = generateNGQL(mitExt, results, missingTechniques)
    /\ pc' = "generated"
    /\ UNCHANGED <<relObjects, args, store, store0, runNo, prev, peer, chosenMitSTIXID,
                   results, mitExt, mitName, foundTechniques, missingTechniques,
                   summary, response, answerYes, ip, log, exitCode, outcome,
                   errStmt, status, actualCount>>

NextDerive == ApplyGenerate

SpecDerive == InitDerive /\ [][NextDerive]_vars

(***************************************************************************)
(* Properties.                                                             *)
(***************************************************************************)

\* The relationship records the collector keeps for the chosen mitigation.
KeptRels ==
    LET objs == Objects(relObjects)
    IN  SelectSeq(relsOf(objs), LAMBDA r :
            /\ r.relationship_type = "mitigates"
            /\ r.source_ref = chosenMitSTIXID
            /\ r.target_ref \in DOMAIN techMapOf(objs))

KeptCode(r) == CodeOf(techMapOf(Objects(relObjects))[r.target_ref])

\* C1: the collector's result list holds no external code twice and is in
\* ascending plain-string order of external code, whatever the bundle's
\* relationships are.
C1_SortedNoDuplicates ==
    /\ \A i, j \in 1..Len(results) :
          i # j => results[i].ExternalID # results[j].ExternalID
    /\ \A i, j \in 1..Len(results) :
          i < j => ~StrLess(results[j].ExternalID, results[i].ExternalID)

\* C1 witness: a result of two or more behaviors collected from
\* relationships that repeat a code and that are not in code order.
C1_Witness ==
    /\ pc = "done"
    /\ outcome = "listed"
    /\ Len(results) >= 2
    /\ \E i, j \in 1..Len(KeptRels) :
          i < j /\ KeptCode(KeptRels[i]) = KeptCode(KeptRels[j])
    /\ \E i, j \in 1..Len(KeptRels) :
          i < j /\ StrLess(KeptCode(KeptRels[j]), KeptCode(KeptRels[i]))

\* The positions of the requested ids the reply does not hold.
KeepAt ==
    {k \in 1..Len(results) :
        \A f \in 1..Len(foundTechniques) : foundTechniques[f] # results[k].ExternalID}

\* C10: the missing-set is the requested list without the codes the oracle
\* returned, in the order requested; returned codes that were not requested
\* change nothing.
C10_MissingIsDifference ==
    pc = "found" =>
        /\ Len(missingTechniques) = Cardinality(KeepAt)
        /\ \A k \in KeepAt :
              missingTechniques[Cardinality({k2 \in KeepAt : k2 <= k})]
                  = results[k].ExternalID

\* C10 witness: some requested codes are returned and some are not, and the
\* reply also holds a code nobody asked for.
C10_Witness ==
    /\ pc = "found"
    /\ Len(missingTechniques) >= 2
    /\ Len(missingTechniques) < Len(results)
    /\ \E f \in 1..Len(foundTechniques) :
          \A k \in 1..Len(results) : foundTechniques[f] # results[k].ExternalID

\* The previous run was confirmed and every statement of its plan succeeded.
PrevAllSucceeded == prev.ran /\ prev.outcome \in {"verified", "verify failed"}

\* This run has computed its missing-set and its plan.
PlanGenerated ==
    \/ pc \in {"confirm", "exec", "verify"}
    \/ pc = "done" /\ outcome \in {"cancelled", "insert failed", "verify failed",
                                   "verified"}
    \/ pc = "done" /\ outcome = "script" /\ ~args.nodb

InsertTags == {"tMitreTechnique", "has_subtechnique", "part_of", "mitigates"}

\* C2: in the emitted script and in the statements executed, vertex inserts
\* come before hierarchy edges, these before category edges, these before
\* mitigation edges; so a hierarchy or category edge for a behavior is only
\* issued after the insert of that behavior's vertex was issued and succeeded.
C2_PhaseOrder ==
    /\ \A i, j \in 1..Len(script) :
          i < j => StepOf(script[i]) <= StepOf(script[j])
    /\ \A i, j \in 1..Len(log) :
          (i < j /\ log[i].op = "insert" /\ log[j].op = "insert")
             => StepOf(log[i].stmt) <= StepOf(log[j].stmt)
    /\ \A j \in 1..Len(log) :
          (log[j].op = "insert" /\ log[j].stmt.tag \in {"has_subtechnique", "part_of"})
             => \E i \in 1..(j - 1) :
                   /\ log[i].op = "insert"
                   /\ log[i].ok
                   /\ log[i].stmt.tag = "tMitreTechnique"
                   /\ log[i].stmt.src = IF log[j].stmt.tag = "part_of"
                                        THEN log[j].stmt.src ELSE log[j].stmt.dst

\* C2 witness: a verified run that issued statements of all four steps.
C2_Witness ==
    /\ pc = "done"
    /\ outcome = "verified"
    /\ \A t \in InsertTags :
          \E i \in 1..Len(log) : log[i].op = "insert" /\ log[i].stmt.tag = t
    /\ \A t \in InsertTags : \E i \in 1..Len(script) : script[i].tag = t

\* C3: after a confirmed run in which every statement succeeded, the next
\* run for the same bundle and countermeasure finds nothing missing and
\* plans only the mitigation edges, one per resolved behavior.
C3_SecondPlanOnlyMitigates ==
    (PrevAllSucceeded /\ PlanGenerated) =>
        /\ Len(missingTechniques) = 0
        /\ Len(script) = Len(results)
        /\ \A i \in 1..Len(script) :
              /\ script[i].tag = "mitigates"
              /\ script[i].dst = quoteID(results[i].ExternalID)

\* C3 witness: the first run inserted a vertex, the second has its plan.
C3_Witness ==
    /\ PrevAllSucceeded
    /\ pc = "confirm"
    /\ Len(results) >= 2
    /\ \E i \in 1..Len(prev.log) :
          prev.log[i].op = "insert" /\ prev.log[i].stmt.tag = "tMitreTechnique"

\* C4: after one fully successful confirmed run, a second fully successful
\* confirmed run leaves the store's vertices and edges exactly as they were.
C4_RerunLeavesStore ==
    (PrevAllSucceeded /\ pc = "done" /\ outcome = "verified") => store = store0

\* C4 witness: the first run wrote vertices and edges, the second one is
\* verified after issuing its statements.
C4_Witness ==
    /\ PrevAllSucceeded
    /\ pc = "done"
    /\ outcome = "verified"
    /\ prev.store0 # store0
    /\ \E i \in 1..Len(prev.log) :
          prev.log[i].op = "insert" /\ prev.log[i].stmt.tag = "tMitreTechnique"
    /\ \E i \in 1..Len(log) : log[i].op = "insert" /\ log[i].ok

\* C5: a failing insertion statement is the last operation of the run: the
\* run ends at once with an error naming that statement, nothing is issued
\* after it (no statement, no verification, no undo), and what the earlier
\* statements wrote is still in the store.
C5_FailureStopsRun ==
    /\ \A i \in 1..Len(log) :
          (log[i].op = "insert" /\ ~log[i].ok) =>
              /\ i = Len(log)
              /\ pc = "done"
              /\ exitCode = 1
              /\ outcome = "insert failed"
              /\ errStmt = log[i].stmt
              /\ \A k \in 1..(i - 1) :
                    log[k].op = "insert" => StoreApply(store, log[k].stmt) = store
    /\ \A i \in 1..Len(log) : log[i].op = "insert" => log[i].stmt.tag \in InsertTags

\* C5 witness: a run that failed on a statement after others had succeeded
\* and before the last statement of its plan.
C5_Witness ==
    /\ pc = "done"
    /\ outcome = "insert failed"
    /\ store # store0
    /\ \E k \in 1..Len(log) : log[k].op = "insert" /\ log[k].ok
    /\ ip < Len(ExecPlan(mitExt, results, missingTechniques))

\* The prompt of this run has been answered.
Answered ==
    \/ pc \in {"exec", "verify"}
    \/ pc = "done" /\ outcome \in {"cancelled", "insert failed", "verify failed",
                                   "verified"}

\* C6: when the operator's answer, trimmed and lower-cased, is neither "yes"
\* nor "y", no insertion statement and no verification query is issued, the
\* store is unchanged, and the run ends without an error.
C6_OnlyYesExecutes ==
    (Answered /\ ~answerYes) =>
        /\ \A i \in 1..Len(log) : log[i].op \notin {"insert", "verify"}
        /\ store = store0
        /\ pc = "done"
        /\ exitCode = 0
        /\ outcome = "cancelled"

\* C7: in execute mode, when the existence check answers that the
\* countermeasure vertex is absent, the run ends as a fatal error before the
\* missing-set query, the plan, the prompt and any insertion; the store is
\* unchanged.
C7_AbsentMitigationAborts ==
    ( /\ args.execute
      /\ \E i \in 1..Len(log) : log[i].op = "exists" /\ log[i].ok
      /\ ~StoreHasMitigation(store0, rawQuote(mitExt)) ) =>
        /\ pc = "done"
        /\ exitCode = 1
        /\ outcome = "mitigation missing"
        /\ \A i \in 1..Len(log) : log[i].op \in {"connect", "exists"}
        /\ script = <<>>
        /\ missingTechniques = <<>>
        /\ response = <<>>
        /\ store = store0

\* C7 witness: the run stopped for the absent vertex although the bundle
\* gave it behaviors to insert.
C7_Witness ==
    /\ args.execute
    /\ pc = "done"
    /\ outcome = "mitigation missing"
    /\ Len(results) >= 1
    /\ store0.mit = {}

\* Counting, without the plan's own helpers.
CountTag(stmts, tag) == Cardinality({i \in 1..Len(stmts) : stmts[i].tag = tag})
HasDot(code) == \E k \in 1..Len(code) : code[k] = 46
DottedCount == Cardinality({i \in 1..Len(results) : HasDot(results[i].ExternalID)})
MappedPhaseCount ==
    Cardinality({p \in (1..Len(results)) \X (1..4) :
        /\ p[2] <= Len(results[p[1]].Tactics)
        /\ results[p[1]].Tactics[p[2]] \in DOMAIN tacticPhaseToID})

\* The oracle was asked and answered that none of the resolved codes exist.
NoneExist ==
    /\ PlanGenerated
    /\ Len(results) >= 1
    /\ foundTechniques = <<>>

\* mitigates edges the store held, before the run, from the countermeasure
\* to codes that are not in the resolved set.
ForeignEdges ==
    {e \in store0.edges :
        /\ e.tag = "mitigates"
        /\ e.src = mitExt
        /\ \A i \in 1..Len(results) : e.dst # results[i].ExternalID}

PlanCountsWhenNoneExist ==
    /\ CountTag(script, "tMitreTechnique") = Len(results)
    /\ CountTag(script, "has_subtechnique") = DottedCount
    /\ \A i \in 1..Len(results) :
          HasDot(results[i].ExternalID) =>
              Cardinality({k \in 1..Len(script) :
                  /\ script[k].tag = "has_subtechnique"
                  /\ script[k].dst = quoteID(results[i].ExternalID)}) = 1
    /\ CountTag(script, "part_of") = MappedPhaseCount
    /\ CountTag(script, "mitigates") = Len(results)

\* C8 as claimed: when none of the N resolved codes exist, the plan has N
\* vertex inserts, one hierarchy edge per dotted code, one category edge per
\* mapped phase and N mitigation edges, and after a fully successful
\* execution the verification count equals N.
C8_CountEqualsN ==
    NoneExist =>
        /\ PlanCountsWhenNoneExist
        /\ (pc = "done" /\ outcome = "verified") => actualCount = Len(results)

\* C8 as amended: the same plan, and a verification count of N plus the
\* mitigates edges the store already held from the countermeasure to codes
\* outside the resolved set.
C8_CountIsNPlusForeign ==
    NoneExist =>
        /\ PlanCountsWhenNoneExist
        /\ (pc = "done" /\ outcome = "verified") =>
              actualCount = Len(results) + Cardinality(ForeignEdges)

\* C8 witness: two behaviors, one of them dotted, none in the store, the run
\* verified; once with a foreign edge in the store and once without.
C8_Witness ==
    /\ NoneExist
    /\ pc = "done"
    /\ outcome = "verified"
    /\ Len(results) = 2
    /\ DottedCount = 1
    /\ MappedPhaseCount >= 2
    /\ ForeignEdges # {}

\* The mitigates lines of the script, and the mitigates statements executed.
ScriptStep4 == SelectSeq(script, LAMBDA st : st.tag = "mitigates")
LogStep4 ==
    SelectSeq(log, LAMBDA e : e.op = "insert" /\ e.stmt.tag = "mitigates")

IsMitigatesOf(st, t) ==
    /\ st.tag = "mitigates"
    /\ st.src = <<34>> \o mitExt \o <<34>>
    /\ st.dst = <<34>> \o t.ExternalID \o <<34>>
    /\ st.defaults = "NULL, \"Enterprise\""

\* The script of this run has been generated.
ScriptGenerated == PlanGenerated \/ (pc = "done" /\ outcome = "script")

\* C9: whatever the missing-set, step 4 holds exactly one statement per
\* resolved behavior, in result order, from the countermeasure's code to the
\* behavior's code with the fixed matrix attribute; behaviors already in the
\* store are not skipped.
C9_MitigatesForEveryBehavior ==
    /\ ScriptGenerated =>
          /\ Len(ScriptStep4) = Len(results)
          /\ \A i \in 1..Len(results) : IsMitigatesOf(ScriptStep4[i], results[i])
    /\ (pc = "done" /\ outcome \in {"verified", "verify failed"}) =>
          /\ Len(LogStep4) = Len(results)
          /\ \A i \in 1..Len(results) : IsMitigatesOf(LogStep4[i].stmt, results[i])

\* C9 witness: a verified run whose missing-set was partial.
C9_Witness ==
    /\ pc = "done"
    /\ outcome = "verified"
    /\ Len(missingTechniques) >= 1
    /\ Len(missingTechniques) < Len(results)

\* unicode.ToUpper on the ASCII range.
UpperByte(c) == IF c \in 97..122 THEN c - 32 ELSE c
ToUpper(s) == [i \in 1..Len(s) |-> UpperByte(s[i])]

\* A code, and a name, as an operator may type them.
CodeVariants(c) == {c, ToLower(c), ToUpper(c)}
NameVariants(n) ==
    {n, ToLower(n), ToUpper(n), <<32>> \o ToLower(n) \o <<9>>}

\* The countermeasure records of the bundle.
CoRecords ==
    LET objs == Objects(relObjects)
    IN  {objs[i] : i \in {k \in 1..Len(objs) :
            objs[k].ok /\ objs[k].type = "course-of-action"}}

\* The bundle was loaded and the resolver has run.
Resolved == pc # "start" /\ outcome \notin {"usage", "bundle"}

\* The command line asks for the countermeasure o by its code or by its
\* name, in one of the forms above.
AsksFor(o) ==
    \/ args.mitigation \in CodeVariants(externalID(o.refs))
    \/ args.mitigation = <<>> /\ args.mitigationName \in NameVariants(o.name)

SelectsWithResults(o) ==
    /\ outcome # "not found"
    /\ chosenMitSTIXID = o.id
    /\ results = Collect(Objects(relObjects), o.id)

\* C11 as claimed: when exactly one countermeasure has the code c and
\* exactly one has the name n, and it is the same one, a query by c in any
\* letter case and a query by n in any letter case and with surrounding
\* white space both select it and give its result set.
C11_CodeAndNameAgree ==
    \A o \in CoRecords :
        ( /\ Resolved
          /\ externalIDok(o.refs)
          /\ {p \in CoRecords : externalIDok(p.refs)
                                /\ externalID(p.refs) = externalID(o.refs)} = {o}
          /\ {p \in CoRecords : p.name = o.name} = {o}
          /\ AsksFor(o) )
        => SelectsWithResults(o)

\* C11 as amended: the same, when code and name are the only ones of the
\* bundle up to letter case and the name is not empty and has no white
\* space at either end.
C11_AgreeWhenUniqueUpToCase ==
    \A o \in CoRecords :
        ( /\ Resolved
          /\ externalIDok(o.refs)
          /\ {p \in CoRecords : externalIDok(p.refs)
                                /\ ToUpper(externalID(p.refs))
                                   = ToUpper(externalID(o.refs))} = {o}
          /\ {p \in CoRecords : ToUpper(p.name) = ToUpper(o.name)} = {o}
          /\ o.name # <<>>
          /\ ~IsSpace(o.name[1])
          /\ ~IsSpace(o.name[Len(o.name)])
          /\ AsksFor(o) )
        => SelectsWithResults(o)

\* C11 witness: "Filter" asked for in lower case between a space and a
\* tab, in a bundle that holds another countermeasure, with two behaviors
\* collected.
C11_Witness ==
    /\ Resolved
    /\ args.mitigation = <<>>
    /\ args.mitigationName = <<32>> \o ToLower(nFilter) \o <<9>>
    /\ chosenMitSTIXID = idM1
    /\ Len(results) = 2
    /\ Cardinality(CoRecords) = 3

\* No countermeasure of the bundle answers the query: none has the code
\* asked for, or, when no code is asked for, none has the name asked for,
\* letter case apart.
NoMatch ==
    IF args.mitigation # <<>>
    THEN \A o \in CoRecords :
            ~ ( /\ externalIDok(o.refs)
                /\ ToUpper(externalID(o.refs)) = ToUpper(args.mitigation) )
    ELSE \A o \in CoRecords :
            ToUpper(o.name) # ToUpper(TrimSpace(args.mitigationName))

\* C12: when no countermeasure has the requested code, or (for a query by
\* name) none has the requested name after the query is trimmed, letter
\* case apart, the run ends with exit code 1 as not found, with nothing
\* collected, nothing written and nothing sent to the store; a query that
\* is only the beginning of a name does not match.
C12_NotFoundIsFatal ==
    (Resolved /\ NoMatch) =>
        /\ pc = "done"
        /\ exitCode = 1
        /\ outcome = "not found"
        /\ chosenMitSTIXID = <<>>
        /\ results = <<>>
        /\ script = <<>>
        /\ log = <<>>
        /\ store = store0

\* C12 witness: -execute with the name "Filt", which "Filter" starts with,
\* ended as not found.
C12_Witness ==
    /\ pc = "done"
    /\ outcome = "not found"
    /\ args.execute
    /\ args.mitigation = <<>>
    /\ args.mitigationName = <<70,105,108,116>>
    /\ relObjects # <<>>

\* The bytes of a code before its first '.'.
RECURSIVE BeforeDot(_)
BeforeDot(code) ==
    IF code = <<>> \/ Head(code) = 46 THEN <<>>
    ELSE <<Head(code)>> \o BeforeDot(Tail(code))

\* The resolved behaviors that are missing and whose code holds a '.'.
MissingSubs ==
    {i \in 1..Len(results) :
        /\ HasDot(results[i].ExternalID)
        /\ \E k \in 1..Len(missingTechniques) :
              missingTechniques[k] = results[i].ExternalID}

IsHierarchyOf(st, code) ==
    /\ st.tag = "has_subtechnique"
    /\ st.src = <<34>> \o BeforeDot(code) \o <<34>>
    /\ st.dst = <<34>> \o code \o <<34>>

\* C13: for every missing behavior whose code holds the separator, the plan
\* has the hierarchy edge from the part of the code before the separator to
\* the code, whether or not that parent is missing, resolved or stored; the
\* only queries sent are the countermeasure's existence, the one list of
\* resolved codes and the final count; and a completed execution has put
\* the edge in the store.
C13_HierarchyEdgeUnchecked ==
    /\ PlanGenerated =>
          \A i \in MissingSubs :
              \E k \in 1..Len(script) : IsHierarchyOf(script[k], results[i].ExternalID)
    /\ \A k \in 1..Len(log) :
          /\ log[k].op \in {"exists", "verify"} =>
                log[k].stmt.src = <<34>> \o mitExt \o <<34>>
          /\ log[k].op = "find" => \A j \in 1..Len(log) : log[j].op = "find" => j = k
          /\ log[k].op \in {"connect", "exists", "find", "insert", "verify"}
    /\ (pc = "done" /\ outcome \in {"verified", "verify failed"}) =>
          \A i \in MissingSubs :
              \E e \in store.edges :
                  /\ e.tag = "has_subtechnique"
                  /\ e.src = BeforeDot(results[i].ExternalID)
                  /\ e.dst = results[i].ExternalID

\* C13 witness: after a verified run for T1071.001 alone the store holds
\* the edge T1071 -> T1071.001 and no vertex T1071.
C13_Witness ==
    /\ pc = "done"
    /\ outcome = "verified"
    /\ Len(results) = 1
    /\ MissingSubs = {1}
    /\ \E e \in store.edges :
          /\ e.tag = "has_subtechnique"
          /\ e.dst = results[1].ExternalID
          /\ \A n \in store.tech : n.vid # e.src

\* The 0-based position of the first '.' of a code that holds one.
RECURSIVE FirstDot(_)
FirstDot(code) == IF Head(code) = 46 THEN 0 ELSE 1 + FirstDot(Tail(code))

\* What the claim says getParentTechniqueID returns.
ParentAsClaimed(code) ==
    IF HasDot(code) /\ FirstDot(code) > 0 THEN BeforeDot(code) ELSE code

\* C14: getParentTechniqueID returns the part before the first separator of
\* a code whose first separator is not its first byte, and the code itself
\* when it holds no separator or begins with one; the hierarchy edge of the
\* script starts at that value.
C14_ParentOfCode ==
    \A i \in 1..Len(results) :
        LET code == results[i].ExternalID
        IN  /\ getParentTechniqueID(code) = ParentAsClaimed(code)
            /\ (pc = "generated" /\ i \in MissingSubs) =>
                  \E k \in 1..Len(script) :
                      /\ script[k].tag = "has_subtechnique"
                      /\ script[k].dst = quoteID(code)
                      /\ script[k].src = quoteID(ParentAsClaimed(code))

\* C14 witness: a script for a code with two separators after its first
\* byte and a code that begins with the separator, both missing.
C14_Witness ==
    /\ pc = "generated"
    /\ Len(results) = 2
    /\ MissingSubs = {1, 2}
    /\ \E i \in 1..2 : results[i].ExternalID = <<84, 46, 46>>
    /\ \E i \in 1..2 : results[i].ExternalID = <<46, 84>>

\* The resolved behaviors that are in the missing-set.
MissingIdx ==
    {i \in 1..Len(results) :
        \E k \in 1..Len(missingTechniques) :
            missingTechniques[k] = results[i].ExternalID}

\* The (behavior, category) pairs the claim expects, from phase j of
\* behavior i on, in result order and phase order.
RECURSIVE CategoryPairs(_, _)
CategoryPairs(i, j) ==
    IF i > Len(results) THEN <<>>
    ELSE IF j > Len(results[i].Tactics) THEN CategoryPairs(i + 1, 1)
    ELSE IF i \in MissingIdx /\ results[i].Tactics[j] \in DOMAIN tacticPhaseToID
         THEN << <<results[i].ExternalID, tacticPhaseToID[results[i].Tactics[j]]>> >>
              \o CategoryPairs(i, j + 1)
    ELSE CategoryPairs(i, j + 1)

ScriptStep3 == SelectSeq(script, LAMBDA st : st.tag = "part_of")

\* C15: the category table has 14 phase names, each with a non-empty
\* category code; the script's category edges are, behavior by behavior and
\* phase by phase, one edge for each phase of a missing behavior that is in
\* the table and nothing for a phase that is not, and the vertex and
\* mitigation statements are all there whatever the phases are.
C15_CategoryEdgesPerMappedPhase ==
    /\ Cardinality(DOMAIN tacticPhaseToID) = 14
    /\ \A p \in DOMAIN tacticPhaseToID : tacticPhaseToID[p] # <<>>
    /\ pc = "generated" =>
          /\ Len(ScriptStep3) = Len(CategoryPairs(1, 1))
          /\ \A k \in 1..Len(ScriptStep3) :
                /\ StoreUnquote(ScriptStep3[k].src) = CategoryPairs(1, 1)[k][1]
                /\ StoreUnquote(ScriptStep3[k].dst) = CategoryPairs(1, 1)[k][2]
          /\ CountTag(script, "tMitreTechnique") = Cardinality(MissingIdx)
          /\ CountTag(script, "mitigates") = Len(results)

\* C15 witness: two missing behaviors, one with a phase outside the table
\* between phases of the table, the other with one before a phase of the
\* table; four category edges.
C15_Witness ==
    /\ pc = "generated"
    /\ Len(results) = 2
    /\ MissingIdx = {1, 2}
    /\ results[1].Tactics = <<"impact", "unknown-phase", "execution", "impact">>
    /\ results[2].Tactics = <<"unknown-phase", "persistence">>
    /\ Len(ScriptStep3) = 4

\* The run was confirmed, every statement it sent succeeded, and so did the
\* verification query.
ExecutedAndVerified ==
    /\ pc = "done"
    /\ \E k \in 1..Len(log) : log[k].op = "verify" /\ log[k].ok
    /\ \A k \in 1..Len(log) : log[k].op = "insert" => log[k].ok

\* C16: after a confirmed execution in which every insertion and the
\* verification query succeeded, the run ends without an error, with status
\* SUCCESS when the counted edges are as many as the resolved behaviors and
\* MISMATCH when they are not.
C16_MismatchIsNotAnError ==
    /\ ExecutedAndVerified =>
          /\ exitCode = 0
          /\ outcome = "verified"
          /\ actualCount = Cardinality({e \in store.edges :
                               e.tag = "mitigates" /\ e.src = mitExt})
          /\ status \in {"SUCCESS", "MISMATCH"}
          /\ status = "SUCCESS" <=> actualCount = Len(results)
    /\ (pc = "done" /\ outcome = "verified") => ExecutedAndVerified

\* C16 witness: a run that ended with exit code 0 and status MISMATCH after
\* inserting for two behaviors.
C16_Witness ==
    /\ ExecutedAndVerified
    /\ exitCode = 0
    /\ status = "MISMATCH"
    /\ Len(results) = 2
    /\ actualCount = 3

\* The behavior records of the bundle that the collector reached for the
\* chosen countermeasure.
ReachedRecords ==
    LET objs == Objects(relObjects)
    IN  {techMapOf(objs)[KeptRels[k].target_ref] : k \in 1..Len(KeptRels)}

\* C17: every behavior of the result list has a non-empty code, which is
\* the id of its first non-empty "mitre-attack" reference or, without one,
\* its STIX id with the "attack-pattern--" prefix removed.
C17_EveryCodeNonEmpty ==
    /\ \A i \in 1..Len(results) : results[i].ExternalID # <<>>
    /\ \A tp \in ReachedRecords :
          \E i \in 1..Len(results) :
              results[i].ExternalID =
                  IF externalIDok(tp.refs) THEN externalID(tp.refs)
                  ELSE TrimPrefix(tp.id, sAttackPatternPrefix)

\* Every '"' of s is one of a pair of adjacent '"'.
RECURSIVE QuotesInPairs(_)
QuotesInPairs(s) ==
    IF s = <<>> THEN TRUE
    ELSE IF Head(s) = 34
         THEN Len(s) >= 2 /\ s[2] = 34 /\ QuotesInPairs(SubSeq(s, 3, Len(s)))
    ELSE QuotesInPairs(Tail(s))

\* text is a double-quoted literal whose inner double quotes are doubled.
IsDoubled(text) ==
    /\ Len(text) >= 2
    /\ text[1] = 34
    /\ text[Len(text)] = 34
    /\ QuotesInPairs(SubSeq(text, 2, Len(text) - 1))

\* No line feed and no carriage return in text.
OneLine(text) == \A k \in 1..Len(text) : text[k] \notin {10, 13}

\* s is made of plain bytes and of the escapes \" \\ \n.
RECURSIVE EscapedOnly(_)
EscapedOnly(s) ==
    IF s = <<>> THEN TRUE
    ELSE IF Head(s) = 92
         THEN Len(s) >= 2 /\ s[2] \in {34, 92, 110} /\ EscapedOnly(SubSeq(s, 3, Len(s)))
    ELSE Head(s) \notin {34, 10} /\ EscapedOnly(Tail(s))

\* What a reader of escaped text gets back.
RECURSIVE Unescape(_)
Unescape(s) ==
    IF s = <<>> THEN <<>>
    ELSE IF Head(s) = 92 /\ Len(s) >= 2
         THEN <<(IF s[2] = 110 THEN 10 ELSE s[2])>> \o Unescape(SubSeq(s, 3, Len(s)))
    ELSE <<Head(s)>> \o Unescape(Tail(s))

\* text is a double-quoted literal in backslash-escaped form, standing for raw.
IsEscapedLiteralOf(text, raw) ==
    /\ Len(text) >= 2
    /\ text[1] = 34
    /\ text[Len(text)] = 34
    /\ EscapedOnly(SubSeq(text, 2, Len(text) - 1))
    /\ Unescape(SubSeq(text, 2, Len(text) - 1)) = raw

\* The quoted texts of a statement: vertex id, code and name of a vertex
\* insert; the two endpoints of an edge insert.
LiteralsOf(st) ==
    IF st.tag = "tMitreTechnique" THEN {st.src, st.id, st.name}
    ELSE {st.src, st.dst}

\* C18 as claimed: in every generated statement, whatever the codes and
\* names hold, each string literal is double-quoted with its inner double
\* quotes doubled and holds no line break.
C18_LiteralsDoubledOneLine ==
    pc = "generated" =>
        \A k \in 1..Len(script) :
            \A text \in LiteralsOf(script[k]) : IsDoubled(text) /\ OneLine(text)

\* C18 as amended: vertex ids and edge endpoints are double-quoted with
\* inner double quotes doubled and otherwise copied byte for byte, so that
\* they hold a line break exactly when the code does; the code and name
\* properties of a vertex insert are double-quoted with '"', '\' and line
\* feed written as backslash escapes, and never hold a line break.
C18_IdsDoubledPropertiesEscaped ==
    pc = "generated" =>
        /\ \A k \in 1..Len(script) :
              /\ IsDoubled(script[k].src)
              /\ script[k].tag # "tMitreTechnique" => IsDoubled(script[k].dst)
        /\ \A i \in MissingIdx :
              \E k \in 1..Len(script) :
                  /\ script[k].tag = "tMitreTechnique"
                  /\ StoreUnquote(script[k].src) = results[i].ExternalID
                  /\ OneLine(script[k].src) <=> OneLine(results[i].ExternalID)
                  /\ IsEscapedLiteralOf(script[k].id, results[i].ExternalID)
                  /\ IsEscapedLiteralOf(script[k].name, results[i].Name)
                  /\ OneLine(script[k].id)
                  /\ OneLine(script[k].name)
        /\ \A i \in 1..Len(results) :
              \E k \in 1..Len(script) :
                  /\ script[k].tag = "mitigates"
                  /\ StoreUnquote(script[k].src) = mitExt
                  /\ StoreUnquote(script[k].dst) = results[i].ExternalID
                  /\ (OneLine(script[k].src) /\ OneLine(script[k].dst))
                        <=> (OneLine(mitExt) /\ OneLine(results[i].ExternalID))

\* C18 witness: a script with the vertex of a code that holds a double
\* quote and the vertex of a behavior whose name holds a double quote and
\* a backslash, for a countermeasure code with a line feed.
C18_Witness ==
    /\ pc = "generated"
    /\ MissingIdx = {1, 2}
    /\ \E i \in 1..2 : \E k \in 1..Len(results[i].ExternalID) :
          results[i].ExternalID[k] = 34
    /\ \E i \in 1..2 : results[i].Name = nQuoteBackslash
    /\ ~OneLine(mitExt)
    /\ Len(script) >= 4

\* C19: when -no-db is on the command line, whatever the other flags are,
\* no connection is opened and no query or statement is sent to the store.
C19_NoDbSendsNothing ==
    args.nodb => (log = <<>> /\ store = store0)

\* The behavior record a kept relationship leads to.
KeptRecord(r) == techMapOf(Objects(relObjects))[r.target_ref]

\* The first kept relationship, in bundle order, that leads to the code of
\* the k-th one.
FirstWithCodeOf(k) ==
    MinOf({j \in 1..Len(KeptRels) : KeptCode(KeptRels[j]) = KeptCode(KeptRels[k])})

\* The "mitre-attack" phases of a behavior record, in record order.
RECURSIVE OwnPhases(_)
OwnPhases(kill) ==
    IF kill = <<>> THEN <<>>
    ELSE (IF Head(kill).kill_chain_name = sMitreAttack
          THEN <<Head(kill).phase_name>> ELSE <<>>) \o OwnPhases(Tail(kill))

\* C20: when several mitigates relationships of the chosen countermeasure
\* lead to behavior records with one code, the result list has one entry
\* for that code, with the name and the phases of the record the first of
\* them leads to; the later ones add no entry and change none.
C20_FirstRelationshipWins ==
    (pc = "done" /\ outcome = "listed") =>
        /\ Len(results) = Cardinality({KeptCode(KeptRels[k]) : k \in 1..Len(KeptRels)})
        /\ \A k \in 1..Len(KeptRels) :
              \E i \in 1..Len(results) :
                  /\ results[i].ExternalID = KeptCode(KeptRels[k])
                  /\ results[i].Name = KeptRecord(KeptRels[FirstWithCodeOf(k)]).name
                  /\ results[i].Tactics =
                        OwnPhases(KeptRecord(KeptRels[FirstWithCodeOf(k)]).kill)

\* C20 witness: "Dup" and then "App", both T1071, and then another
\* behavior were reached; the list has two entries and T1071 is "Dup".
C20_Witness ==
    /\ pc = "done"
    /\ outcome = "listed"
    /\ Len(KeptRels) = 3
    /\ KeptRecord(KeptRels[1]).name = nDup
    /\ KeptRecord(KeptRels[2]).name = nApp
    /\ Len(results) = 2
    /\ \E i \in 1..2 : results[i].ExternalID = sT1071 /\ results[i].Name = nDup

\* The parsed behavior records of the bundle, by STIX id.
BehaviorIds ==
    LET objs == Objects(relObjects)
    IN  {objs[k].id : k \in {j \in 1..Len(objs) :
            objs[j].ok /\ objs[j].type = "attack-pattern"}}

\* A record of the bundle's tail that is a well-formed "mitigates"
\* relationship from the chosen countermeasure to a parsed behavior.
IsOwnMitigates(o) ==
    /\ o.ok
    /\ o.type = "relationship"
    /\ o.relationship_type = "mitigates"
    /\ o.source_ref = chosenMitSTIXID
    /\ o.target_ref \in BehaviorIds

\* The bundle's tail without every other record.
OwnOnly == SelectSeq(relObjects, IsOwnMitigates)

\* C21: the result list holds exactly the codes of the behaviors that a
\* "mitigates" relationship from the chosen countermeasure leads to;
\* relationships of another type, from another source or to something that
\* is not a parsed behavior change neither the list nor the outcome, which
\* is not an error.
C21_OtherRelationshipsIgnored ==
    (pc = "done" /\ outcome \notin {"usage", "bundle", "not found"}) =>
        /\ outcome = "listed"
        /\ exitCode = 0
        /\ {results[i].ExternalID : i \in 1..Len(results)}
              = {CodeOf(techMapOf(Catalog)[OwnOnly[k].target_ref]) :
                    k \in 1..Len(OwnOnly)}
        /\ results = Collect(Catalog \o OwnOnly, chosenMitSTIXID)

\* C21 witness: a bundle with a "uses" relationship, a relationship to a
\* record that is not a behavior and one "mitigates" relationship that
\* counts; one behavior listed.
C21_Witness ==
    /\ pc = "done"
    /\ outcome = "listed"
    /\ Len(results) = 1
    /\ Len(OwnOnly) = 1
    /\ \E k \in 1..Len(relObjects) :
          relObjects[k].ok /\ relObjects[k].relationship_type = "uses"
    /\ \E k \in 1..Len(relObjects) :
          /\ relObjects[k].ok
          /\ relObjects[k].relationship_type = "mitigates"
          /\ relObjects[k].source_ref = chosenMitSTIXID
          /\ relObjects[k].target_ref \notin BehaviorIds

\* The statements of the log's insert entries, in order.
Inserted ==
    LET e == SelectSeq(log, LAMBDA x : x.op = "insert")
    IN  [k \in 1..Len(e) |-> e[k].stmt]

\* C22: in execute mode a failed existence query or a failed
\* existing-subset query is the last operation of the run, which ends with
\* exit code 1 with no plan shown, no answer read and no insert sent; each
\* of the connection, the two queries and the verification appears at most
\* once in a run's log, and the inserts sent are the plan's statements from
\* the first on, each once.
C22_QueryFailureFatalNoRetry ==
    /\ \A k \in 1..Len(log) :
          (args.execute /\ log[k].op \in {"exists", "find"} /\ ~log[k].ok) =>
              /\ k = Len(log)
              /\ pc = "done"
              /\ exitCode = 1
              /\ outcome = (IF log[k].op = "exists" THEN "check failed"
                            ELSE "find failed")
              /\ script = <<>>
              /\ summary = <<0, 0, 0, 0>>
              /\ response = <<>>
              /\ Inserted = <<>>
              /\ store = store0
    /\ \A op \in {"connect", "exists", "find", "verify"} :
          Cardinality({k \in 1..Len(log) : log[k].op = op}) <= 1
    /\ Len(Inserted) <= Len(ExecPlan(mitExt, results, missingTechniques))
    /\ \A k \in 1..Len(Inserted) :
          Inserted[k] = ExecPlan(mitExt, results, missingTechniques)[k]

\* C22 witness: an execute run for two behaviors ended on the failed
\* existing-subset query.
C22_Witness ==
    /\ args.execute
    /\ pc = "done"
    /\ outcome = "find failed"
    /\ Len(results) = 2
    /\ Len(log) = 3

\* The place of a control point in the order Init, Checked-Existence,
\* Plan-Generated, Confirmed or Cancelled, Executed, Verified.
Rank(p) ==
    CASE p = "start"   -> 0
      [] p = "connect" -> 1
      [] p = "check"   -> 2
      [] p = "find"    -> 3
      [] p = "confirm" -> 4
      [] p = "exec"    -> 5
      [] p = "verify"  -> 6
      [] p = "done"    -> 7

\* The place of a store operation in that order.
OpRank(op) ==
    CASE op = "connect" -> 1
      [] op = "exists"  -> 2
      [] op = "find"    -> 3
      [] op = "insert"  -> 5
      [] op = "verify"  -> 6

\* The log of an execute run so far respects the order of the states.
OrderedLog ==
    /\ \A j, k \in 1..Len(log) :
          j < k => /\ OpRank(log[j].op) <= OpRank(log[k].op)
                   /\ log[j].ok
    /\ (\E k \in 1..Len(log) : log[k].op = "insert") =>
          /\ \E k \in 1..Len(log) : log[k].op = "exists" /\ log[k].ok
          /\ \/ results = <<>>
             \/ \E k \in 1..Len(log) : log[k].op = "find" /\ log[k].ok
          /\ response \in {sYes, sY}
    /\ \A k \in 1..Len(log) :
          log[k].op = "verify" =>
              /\ \A j \in 1..Len(log) : log[j].op = "verify" => j = k
              /\ k = Len(log)
              /\ response \in {sYes, sY}
              /\ Inserted = ExecPlan(mitExt, results, missingTechniques)
              /\ \A j \in 1..(k - 1) : log[j].ok
              /\ outcome \notin {"cancelled", "insert failed"}
    /\ outcome \in {"cancelled", "insert failed", "check failed", "find failed",
                    "mitigation missing", "connect failed"} =>
          \A k \in 1..Len(log) : log[k].op # "verify"

\* C23: an execute run only moves forward through Init,
\* Checked-Existence, Plan-Generated, Confirmed or Cancelled, Executed,
\* Verified; no insert is sent before both checks succeeded and the answer
\* read was affirmative; the verification query is sent once, after every
\* statement of the plan succeeded, and never on a cancelled or failed run.
C23_StatesInOrder ==
    /\ [](args.execute => OrderedLog)
    /\ [][(args.execute /\ pc' # pc /\ pc # "done") => Rank(pc') > Rank(pc)]_vars

\* C23 witness: a run that went through every state, three inserts or more
\* and the verification.
C23_Witness ==
    /\ args.execute
    /\ pc = "done"
    /\ outcome = "verified"
    /\ Len(Inserted) >= 3
    /\ log[Len(log)].op = "verify"

\* The statements of the script that insert the vertex of a code, or an
\* edge that belongs to it (the hierarchy edge to it, a category edge from
\* it).
VertexStmts(code) ==
    {k \in 1..Len(script) :
        script[k].tag = "tMitreTechnique" /\ script[k].src = <<34>> \o code \o <<34>>}
OwnEdgeStmts(code) ==
    {k \in 1..Len(script) :
        \/ script[k].tag = "has_subtechnique" /\ script[k].dst = <<34>> \o code \o <<34>>
        \/ script[k].tag = "part_of" /\ script[k].src = <<34>> \o code \o <<34>>}

ReportedPresent(code) ==
    \E f \in 1..Len(foundTechniques) : foundTechniques[f] = code

\* C24: the plan has no vertex insert, hierarchy edge or category edge for
\* a behavior the oracle reported present, and exactly one vertex insert,
\* with the fixed default attributes, for each missing behavior; the
\* behavior vertices the store held before the run are still there,
\* unchanged, whatever the run did.
C24_PresentBehaviorsUntouched ==
    /\ PlanGenerated =>
          \A i \in 1..Len(results) :
              IF ReportedPresent(results[i].ExternalID)
              THEN /\ VertexStmts(results[i].ExternalID) = {}
                   /\ OwnEdgeStmts(results[i].ExternalID) = {}
              ELSE /\ Cardinality(VertexStmts(results[i].ExternalID)) = 1
                   /\ \A k \in VertexStmts(results[i].ExternalID) :
                         /\ script[k].defaults = "\"18.0\", false, 4, 0.1667, 120"
                         /\ Unescape(SubSeq(script[k].name, 2, Len(script[k].name) - 1))
                               = results[i].Name
    /\ \A n \in store0.tech : n \in store.tech
    /\ \A n, m \in store.tech : n.vid = m.vid => n = m

\* C24 witness: the store held T1071 under another name; a verified run for
\* T1071 and T1071.001 inserted the second and left the first as it was.
C24_Witness ==
    /\ pc = "done"
    /\ outcome = "verified"
    /\ Len(results) = 2
    /\ foundTechniques = <<sT1071>>
    /\ \E n \in store0.tech : n.vid = sT1071 /\ n.defaults = "old"
    /\ \E n \in store.tech : n.vid = sT1071_001 /\ n.defaults # "old"
    /\ Cardinality(store.tech) = 2

\* The store after every statement of a plan was applied, in order.
RECURSIVE ApplyAll(_, _)
ApplyAll(st, stmts) ==
    IF stmts = <<>> THEN st ELSE ApplyAll(StoreApply(st, Head(stmts)), Tail(stmts))

\* What one confirmed run without a failure leaves, starting from store st,
\* for the resolved list of this run.
UninterruptedFrom(st) ==
    LET ids == AllTechIDs(results)
        missing == findMissingTechniques(ids, StoreFind(st, QuotedIDs(ids)))
    IN  ApplyAll(st, ExecPlan(mitExt, results, missing))

\* The previous run stopped on a failing statement after a vertex insert of
\* its own had succeeded; this run was confirmed and nothing in it failed.
RecoveryRun ==
    /\ runNo = 2
    /\ prev.ran
    /\ prev.outcome = "insert failed"
    /\ \E k \in 1..Len(prev.log) :
          /\ prev.log[k].op = "insert"
          /\ prev.log[k].ok
          /\ prev.log[k].stmt.tag = "tMitreTechnique"
    /\ pc = "done"
    /\ outcome = "verified"

\* C25: when a confirmed run stopped on a failing statement after one of
\* its vertex inserts had succeeded, a later confirmed run without a
\* failure leaves in the store every vertex and every hierarchy, category
\* and mitigation edge that one run without a failure would have created
\* from the store as it was before the first run.
C25_RerunCompletesPartialRun ==
    RecoveryRun =>
        /\ \A n \in UninterruptedFrom(prev.store0).tech :
              \E m \in store.tech : m.vid = n.vid
        /\ \A e \in UninterruptedFrom(prev.store0).edges : e \in store.edges

\* C26: the insert statements a confirmed execution sent when none failed
\* are the INSERT lines of the script shown before the prompt, the same
\* texts in the same order, and the four counts of the summary are the
\* numbers of statements sent in steps 1 to 4.
C26_ExecutedIsScript ==
    (args.execute /\ pc = "done" /\ outcome \in {"verified", "verify failed"}) =>
        /\ Inserted = script
        /\ summary = << CountTag(Inserted, "tMitreTechnique"),
                        CountTag(Inserted, "has_subtechnique"),
                        CountTag(Inserted, "part_of"),
                        CountTag(Inserted, "mitigates") >>

\* C26 witness: a verified run that sent statements of all four steps for a
\* partial missing-set, one behavior having a phase outside the table.
C26_Witness ==
    /\ args.execute
    /\ pc = "done"
    /\ outcome = "verified"
    /\ Len(results) = 2
    /\ Len(missingTechniques) = 1
    /\ summary = <<1, 1, 2, 2>>
    /\ Len(Inserted) = 6

\* C27: no hierarchy edge of a script goes from a code to itself; a missing
\* behavior whose code begins with the separator has no hierarchy edge.
C27_NoSelfParentEdge ==
    pc = "generated" =>
        /\ \A k \in 1..Len(script) :
              script[k].tag = "has_subtechnique" => script[k].src # script[k].dst
        /\ \A i \in MissingIdx :
              (results[i].ExternalID # <<>> /\ results[i].ExternalID[1] = 46) =>
                  \A k \in 1..Len(script) :
                      script[k].tag = "has_subtechnique" =>
                          StoreUnquote(script[k].dst) # results[i].ExternalID

\* C29: every mitigation-edge statement of a script, and every one sent to
\* the store, has a non-empty countermeasure code as its source, also when
\* the countermeasure was found by name and has no mitre-attack reference.
C29_MitigationSourceNonEmpty ==
    /\ ScriptGenerated =>
          \A k \in 1..Len(script) :
              script[k].tag = "mitigates" => StoreUnquote(script[k].src) # <<>>
    /\ \A k \in 1..Len(Inserted) :
          Inserted[k].tag = "mitigates" => StoreUnquote(Inserted[k].src) # <<>>

\* Both instances were confirmed, sent their whole plans and verified.
BothVerified ==
    /\ pc = "done" /\ outcome = "verified"
    /\ peer.pc = "done" /\ peer.outcome = "verified"

\* No two vertices of the store share an id, and no two edges share type,
\* source and target.
NoDuplicates ==
    /\ \A n1, n2 \in store.tech : n1.vid = n2.vid => n1 = n2
    /\ \A e1, e2 \in store.edges :
          (e1.tag = e2.tag /\ e1.src = e2.src /\ e1.dst = e2.dst) => e1 = e2

\* The store is what one confirmed run without a failure would have left.
AsOneRun == store = UninterruptedFrom(store0) /\ NoDuplicates

\* The vertex inserts a run state's log holds.
VertexInsertsOf(l) ==
    {l[k].stmt : k \in {k \in 1..Len(l) :
        l[k].op = "insert" /\ l[k].stmt.tag = "tMitreTechnique"}}

\* C28: after two instances ran for the same bundle and countermeasure on
\* one store, interleaved in any order, both confirmed and without a failure,
\* the store is what a single successful run would have left, with no
\* duplicate vertex or edge, and each instance's verification count equals
\* the size of the resolved set.
C28_PairCountEqualsN ==
    BothVerified =>
        /\ AsOneRun
        /\ actualCount = Len(results)
        /\ peer.actualCount = Len(peer.results)

\* C28 as amended: the same store, and for each instance a verification
\* count of the size of the resolved set plus the mitigates edges the store
\* already held from the countermeasure to codes outside the resolved set.
C28_PairCountIsNPlusForeign ==
    BothVerified =>
        /\ AsOneRun
        /\ peer.results = results /\ peer.mitExt = mitExt
        /\ actualCount = Len(results) + Cardinality(ForeignEdges)
        /\ peer.actualCount = Len(results) + Cardinality(ForeignEdges)

\* C28 witness: both instances found the same behavior missing and both sent
\* its vertex insert; two behaviors resolved, a foreign edge in the store.
C28_Witness ==
    /\ BothVerified
    /\ Len(results) = 2
    /\ VertexInsertsOf(log) \cap VertexInsertsOf(peer.log) # {}
    /\ ForeignEdges # {}

=============================================================================
